---- MODULE Spec2Model ----
(***************************************************************************)
(* A model of the toy_compiler pipeline: Scanner (scanner.rs), Parser      *)
(* (parser.rs), Environment (environment.rs), Interpreter (interpreter.rs) *)
(* and the driver's run/run_file (main.rs).                                *)
(*                                                                         *)
(* Source text is a sequence of characters (one-character strings); a      *)
(* Rust 'String' is indexed by BYTE offsets while 'chars().nth(i)' counts  *)
(* characters, so every character carries its UTF-8 width.                 *)
(* Numbers (f64) are modelled as exact decimals <<mantissa, scale>>        *)
(* meaning mantissa / 10^scale, normalised to have no trailing zero.       *)
(***************************************************************************)
EXTENDS Integers, Sequences, FiniteSets, TLC

VARIABLES
    scanner,      \* the Scanner struct (scanner.rs:31-38) plus its stderr lines
    scan_pc,      \* position in Scanner::scan_tokens
    scan_ret,     \* what scan_tokens returned
    parser,       \* the Parser struct (parser.rs:6-9) plus its stderr lines
    statements,   \* the 'statements' vector local to Parser::parse
    parse_pc,     \* position in Parser::parse
    source,       \* the text handed to run()
    environment,  \* *Interpreter.environment, the Environment the driver owns
    stack,        \* the interpreter's call stack (interpret / execute_block / ...)
    pending,      \* a RuntimeError travelling up through the '?' operators
    output,       \* the lines written by println!
    stderr,       \* the lines written by eprintln! during the run
    run_pc,       \* position in run() / run_file()
    run_ret,      \* what run() returned
    exit_code,    \* the code run_file() exits with
    eval_ret,     \* what Interpreter::evaluate returned for the expression under study
    parent,       \* the Environment a block is entered from
    child,        \* the Environment of the block, its enclosing a clone of parent
    reference,    \* the same scopes chained by reference: the maps, innermost first
    scope_pc,     \* position in the life of the child Environment
    scope_ops,    \* the number of calls made on the child
    scope_ret     \* what the last Environment::get on the child returned

vars == <<scanner, scan_pc, scan_ret, parser, statements, parse_pc, source, environment, stack, pending, output, stderr, run_pc, run_ret, exit_code, eval_ret, parent, child, reference, scope_pc, scope_ops, scope_ret>>

scan_vars == <<scanner, scan_pc, scan_ret>>

parse_vars == <<parser, statements, parse_pc>>

run_vars == <<source, environment, stack, pending, output, stderr, run_pc, run_ret, exit_code>>

scope_vars == <<parent, child, reference, scope_pc, scope_ops, scope_ret>>

(***************************************************************************)
(* Bounds of the model.                                                    *)
(***************************************************************************)
\* longest source text enumerated character by character
MaxSourceLen == 3

\* longest block-comment body enumerated
MaxCommentLen == 3

\* deepest nesting of blocks in the enumerated programs
MaxDepth == 2

\* largest bound n of the enumerated 'for' loops
MaxLoop == 3

\* the run is cut off when it has printed this many lines
MaxOutput == 5

\* most statements run before the failing one
MaxLead == 2

\* most tokens of a malformed statement before its ';'
MaxMalformedLen == 2

\* most frames of an environment an expression is evaluated in
MaxFrames == 2

\* most tokens, before Eof, of an arbitrary token sequence given to the parser
MaxTokens == 3

(***************************************************************************)
(* Characters and strings.                                                 *)
(***************************************************************************)
\* '\0', which peek() and peek_next() return at the end of the text
NUL == "NUL"

\* a character outside ASCII: U+00E9, two bytes in UTF-8
EAcute == "U+00E9"

Digits == {"0", "1", "2", "3", "4", "5", "6", "7", "8", "9"}

Letters == {"a", "b", "c", "d", "e", "f", "g", "h", "i", "j", "k", "l", "m", "n", "o", "p", "q", "r", "s", "t", "u", "v", "w", "x", "y", "z", "A", "B", "C", "D", "E", "F", "G", "H", "I", "J", "K", "L", "M", "N", "O", "P", "Q", "R", "S", "T", "U", "V", "W", "X", "Y", "Z"}

is_ascii_digit(c) == c \in Digits

is_ascii_alphanumeric(c) == c \in Digits \union Letters

DigitVal(c) ==
    CASE c = "0" -> 0 [] c = "1" -> 1 [] c = "2" -> 2 [] c = "3" -> 3 [] c = "4" -> 4
      [] c = "5" -> 5 [] c = "6" -> 6 [] c = "7" -> 7 [] c = "8" -> 8 [] c = "9" -> 9

DigitChar(d) ==
    CASE d = 0 -> "0" [] d = 1 -> "1" [] d = 2 -> "2" [] d = 3 -> "3" [] d = 4 -> "4"
      [] d = 5 -> "5" [] d = 6 -> "6" [] d = 7 -> "7" [] d = 8 -> "8" [] d = 9 -> "9"

\* char::len_utf8
len_utf8(c) == IF c = EAcute THEN 2 ELSE 1

\* the byte offset at which character number k (0-based) of src starts:
\* one byte for each character before it and one more for each wide one
ByteOffset(src, k) == k + Cardinality({i \in 1..k : len_utf8(src[i]) = 2})

\* String::len(): the length in bytes
ByteLen(src) == ByteOffset(src, Len(src))

RECURSIVE Walk(_, _, _, _)
\* from character k at byte offset off, the first character at or after byte b
Walk(src, b, k, off) == IF off >= b \/ k = Len(src) THEN <<k, off>> ELSE Walk(src, b, k + 1, off + len_utf8(src[k + 1]))

\* str::is_char_boundary
is_char_boundary(src, b) == Walk(src, b, 0, 0)[2] = b

CharsBefore(src, b) == Walk(src, b, 0, 0)[1]

\* &source[a..b] panics unless a <= b <= len and both are character boundaries
SliceOk(src, a, b) == a <= b /\ b <= ByteLen(src) /\ is_char_boundary(src, a) /\ is_char_boundary(src, b)

Slice(src, a, b) == SubSeq(src, CharsBefore(src, a) + 1, CharsBefore(src, b))

RECURSIVE Str(_)
\* the characters as one string
Str(chars) == IF chars = <<>> THEN "" ELSE Head(chars) \o Str(Tail(chars))

(***************************************************************************)
(* token.rs: Literal, Value, Token.                                        *)
(***************************************************************************)
RECURSIVE Normalise(_, _)
\* an exact decimal without trailing zeros in its fraction
Normalise(m, s) == IF s > 0 /\ m % 10 = 0 THEN Normalise(m \div 10, s - 1) ELSE <<m, s>>

LitNil == <<"Nil">>

LitBool(b) == <<"Bool", b>>

LitNumber(m, s) == <<"Number", Normalise(m, s)[1], Normalise(m, s)[2]>>

LitString(str) == <<"String_", str>>

LitInt(n) == LitNumber(n, 0)

\* Token::new (token.rs:89-101)
Token(type_, lexeme, literal, line) == [type_ |-> type_, lexeme |-> lexeme, literal |-> literal, line |-> line]

(***************************************************************************)
(* scanner.rs                                                              *)
(***************************************************************************)
KEYWORDS == [k \in {"and", "class", "else", "false", "for", "fun", "if", "nil", "or", "print", "return", "super", "this", "true", "var", "while"} |->
    CASE k = "and" -> "And" [] k = "class" -> "Class" [] k = "else" -> "Else" [] k = "false" -> "False"
      [] k = "for" -> "For" [] k = "fun" -> "Fun" [] k = "if" -> "If" [] k = "nil" -> "Nil"
      [] k = "or" -> "Or" [] k = "print" -> "Print" [] k = "return" -> "Return" [] k = "super" -> "Super"
      [] k = "this" -> "This" [] k = "true" -> "True" [] k = "var" -> "Var" [] k = "while" -> "While"]

\* Scanner::new
ScannerNew(src) == [source |-> src, tokens |-> <<>>, start |-> 0, current |-> 0, line |-> 1, had_error |-> FALSE, panicked |-> FALSE, errs |-> <<>>]

\* a panic (a failed unwrap(), a slice off a character boundary) aborts the process
Panic(s) == [s EXCEPT !.panicked = TRUE]

\* crate::report via error_line / error_token (main.rs:81-101)
report(line, loc, message) == [line |-> line, loc |-> loc, message |-> message]

\* Scanner::error
scan_error(s, message) == [s EXCEPT !.errs = Append(@, report(s.line, "", message)), !.had_error = TRUE]

is_at_end(s) == s.current >= ByteLen(s.source)

\* chars().nth(i) is None when fewer than i+1 characters exist
NthIsSome(s, i) == 0 <= i /\ i < Len(s.source)

Nth(s, i) == s.source[i + 1]

\* Scanner::advance; the character it returns is AdvancedChar of the result
advance(s) ==
    IF s.panicked THEN s
    ELSE LET s1 == IF ~is_at_end(s) THEN [s EXCEPT !.current = @ + 1] ELSE s
         IN  IF NthIsSome(s1, s1.current - 1) THEN s1 ELSE Panic(s1)

AdvancedChar(s) == Nth(s, s.current - 1)

\* Scanner::match_next: whether it returns true
match_hit(s, expected) == ~is_at_end(s) /\ NthIsSome(s, s.current) /\ Nth(s, s.current) = expected

\* Scanner::match_next: its effect on the scanner
match_next(s, expected) ==
    IF s.panicked \/ is_at_end(s) THEN s
    ELSE IF ~NthIsSome(s, s.current) THEN Panic(s)
    ELSE IF Nth(s, s.current) # expected THEN s
    ELSE [s EXCEPT !.current = @ + 1]

\* Scanner::peek panics exactly when this is false
peek_ok(s) == is_at_end(s) \/ NthIsSome(s, s.current)

peek(s) == IF is_at_end(s) THEN NUL ELSE Nth(s, s.current)

peek_next_ok(s) == s.current + 1 >= ByteLen(s.source) \/ NthIsSome(s, s.current + 1)

peek_next(s) == IF s.current + 1 >= ByteLen(s.source) THEN NUL ELSE Nth(s, s.current + 1)

\* Scanner::add_full_token
add_full_token(s, type_, literal) ==
    IF s.panicked THEN s
    ELSE IF ~SliceOk(s.source, s.start, s.current) THEN Panic(s)
    ELSE [s EXCEPT !.tokens = Append(@, Token(type_, Str(Slice(s.source, s.start, s.current)), literal, s.line))]

\* Scanner::add_token
add_token(s, type_) == add_full_token(s, type_, LitNil)

RECURSIVE line_comment(_)
\* scanner.rs:100-102
line_comment(s) ==
    IF s.panicked THEN s
    ELSE IF ~peek_ok(s) THEN Panic(s)
    ELSE IF peek(s) # "\n" /\ ~is_at_end(s) THEN line_comment(advance(s))
    ELSE s

RECURSIVE block_comment_loop(_)
\* scanner.rs:105-108
block_comment_loop(s) ==
    IF s.panicked THEN s
    ELSE IF ~peek_ok(s) THEN Panic(s)
    ELSE IF peek(s) = "*" THEN s
    ELSE IF ~peek_next_ok(s) THEN Panic(s)
    ELSE IF peek_next(s) # "/" /\ ~is_at_end(s)
         THEN block_comment_loop(advance(IF peek(s) = "\n" THEN [s EXCEPT !.line = @ + 1] ELSE s))
    ELSE s

\* scanner.rs:103-112
block_comment(s) == advance(advance(block_comment_loop(s)))

RECURSIVE string_loop(_)
\* scanner.rs:182-187
string_loop(s) ==
    IF s.panicked THEN s
    ELSE IF ~peek_ok(s) THEN Panic(s)
    ELSE IF peek(s) # "\"" /\ ~is_at_end(s)
         THEN string_loop(advance(IF peek(s) = "\n" THEN [s EXCEPT !.line = @ + 1] ELSE s))
    ELSE s

\* Scanner::string
string(s) ==
    LET s1 == string_loop(s)
    IN  IF s1.panicked THEN s1
        ELSE IF is_at_end(s1) THEN scan_error(s1, "Unterminated string")
        ELSE LET s2 == advance(s1)
             IN  IF s2.panicked THEN s2
                 ELSE IF ~SliceOk(s2.source, s2.start + 1, s2.current - 1) THEN Panic(s2)
                 ELSE add_full_token(s2, "String_", LitString(Str(Slice(s2.source, s2.start + 1, s2.current - 1))))

RECURSIVE digits_loop(_)
\* scanner.rs:201-203 and 212-214
digits_loop(s) ==
    IF s.panicked THEN s
    ELSE IF ~peek_ok(s) THEN Panic(s)
    ELSE IF is_ascii_digit(peek(s)) THEN digits_loop(advance(s))
    ELSE s

RECURSIVE ParseDigits(_, _)
\* the value of a run of decimal digits, most significant first, after acc
ParseDigits(chars, acc) == IF chars = <<>> THEN acc ELSE ParseDigits(Tail(chars), 10 * acc + DigitVal(Head(chars)))

\* str::parse::<f64> on a lexeme of the form digits or digits.digits
ParseNumber(chars) ==
    LET dots == {i \in 1..Len(chars) : chars[i] = "."}
    IN  IF dots = {} THEN LitNumber(ParseDigits(chars, 0), 0)
        ELSE LET d == CHOOSE i \in dots : TRUE
             IN  LitNumber(ParseDigits(SubSeq(chars, 1, d - 1) \o SubSeq(chars, d + 1, Len(chars)), 0), Len(chars) - d)

\* Scanner::number
number(s) ==
    LET s1 == digits_loop(s)
        dot == IF s1.panicked THEN s1
               ELSE IF ~peek_ok(s1) THEN Panic(s1)
               ELSE IF peek(s1) # "." THEN s1
               ELSE IF ~peek_next_ok(s1) THEN Panic(s1)
               ELSE IF is_ascii_digit(peek_next(s1)) THEN advance(s1)
               ELSE s1
        s2 == digits_loop(dot)
    IN  IF s2.panicked THEN s2
        ELSE IF ~SliceOk(s2.source, s2.start, s2.current) THEN Panic(s2)
        ELSE add_full_token(s2, "Number", ParseNumber(Slice(s2.source, s2.start, s2.current)))

RECURSIVE identifier_loop(_)
\* scanner.rs:222-224
identifier_loop(s) ==
    IF s.panicked THEN s
    ELSE IF ~peek_ok(s) THEN Panic(s)
    ELSE IF is_ascii_alphanumeric(peek(s)) \/ peek(s) = "_" THEN identifier_loop(advance(s))
    ELSE s

\* Scanner::identifier
identifier(s) ==
    LET s1 == identifier_loop(s)
    IN  IF s1.panicked THEN s1
        ELSE IF ~SliceOk(s1.source, s1.start, s1.current) THEN Panic(s1)
        ELSE LET lexeme == Str(Slice(s1.source, s1.start, s1.current))
             IN  add_token(s1, IF lexeme \in DOMAIN KEYWORDS THEN KEYWORDS[lexeme] ELSE "Identifier")

\* the arms of scan_token for '!', '=', '<', '>'
two_char(s, two, one) == add_token(match_next(s, "="), IF match_hit(s, "=") THEN two ELSE one)

\* the '/' arm of scan_token (scanner.rs:96-116)
slash(s) ==
    IF match_hit(s, "/") THEN line_comment(match_next(s, "/"))
    ELSE LET s1 == match_next(s, "/")
         IN  IF s1.panicked THEN s1
             ELSE IF match_hit(s1, "*") THEN block_comment(match_next(s1, "*"))
             ELSE add_token(match_next(s1, "*"), "Slash")

\* Scanner::scan_token
scan_token(s) ==
    LET a == advance(s)
    IN  IF a.panicked THEN a
        ELSE LET c == AdvancedChar(a)
             IN  CASE c = "(" -> add_token(a, "LeftParen")
                   [] c = ")" -> add_token(a, "RightParen")
                   [] c = "{" -> add_token(a, "LeftBrace")
                   [] c = "}" -> add_token(a, "RightBrace")
                   [] c = "," -> add_token(a, "Comma")
                   [] c = "." -> add_token(a, "Dot")
                   [] c = "-" -> add_token(a, "Minus")
                   [] c = "+" -> add_token(a, "Plus")
                   [] c = ";" -> add_token(a, "Semicolon")
                   [] c = "*" -> add_token(a, "Star")
                   [] c = "!" -> two_char(a, "BangEqual", "Bang")
                   [] c = "=" -> two_char(a, "EqualEqual", "Equal")
                   [] c = "<" -> two_char(a, "LessEqual", "Less")
                   [] c = ">" -> two_char(a, "GreaterEqual", "Greater")
                   [] c = "/" -> slash(a)
                   [] c \in {" ", "\r", "\t"} -> a
                   [] c = "\n" -> [a EXCEPT !.line = @ + 1]
                   [] c = "\"" -> string(a)
                   [] c \in Digits -> number(a)
                   [] c \in Letters \union {"_"} -> identifier(a)
                   [] OTHER -> scan_error(a, "Unexpected character")

\* one turn of the loop of scan_tokens (scanner.rs:53-56)
scan_loop_body(s) == scan_token([s EXCEPT !.start = s.current])

\* scanner.rs:57
push_eof(s) == [s EXCEPT !.tokens = Append(@, Token("Eof", "", LitNil, s.line))]

\* scanner.rs:58-61: Result<Vec<Token>, Error>
scan_result(s) == IF s.had_error THEN <<"Err", "ScanError">> ELSE <<"Ok", s.tokens>>

RECURSIVE scan_all(_)
\* the scanner after scan_tokens has run to its return (or to a panic)
scan_all(s) ==
    IF s.panicked THEN s
    ELSE IF ~is_at_end(s) THEN scan_all(scan_loop_body(s))
    ELSE push_eof(s)

(***************************************************************************)
(* expr.rs and stmt.rs: the nodes of the tree.  An Option is <<>> (None)   *)
(* or <<x>> (Some(x)).                                                     *)
(***************************************************************************)
None == <<>>

Some(x) == <<x>>

ExprAssign(name, value) == [kind |-> "Assign", name |-> name, value |-> value]

ExprBinary(left, operator, right) == [kind |-> "Binary", left |-> left, operator |-> operator, right |-> right]

ExprGrouping(expression) == [kind |-> "Grouping", expression |-> expression]

ExprLiteral(value) == [kind |-> "Literal", value |-> value]

ExprLogical(left, operator, right) == [kind |-> "Logical", left |-> left, operator |-> operator, right |-> right]

ExprUnary(operator, right) == [kind |-> "Unary", operator |-> operator, right |-> right]

ExprVariable(name) == [kind |-> "Variable", name |-> name]

StmtBlock(stmts) == [kind |-> "Block", statements |-> stmts]

StmtExpression(expression) == [kind |-> "Expression", expression |-> expression]

StmtIf(condition, then_branch, else_branch) == [kind |-> "If", condition |-> condition, then_branch |-> then_branch, else_branch |-> else_branch]

StmtPrint(expression) == [kind |-> "Print", expression |-> expression]

StmtWhile(condition, body) == [kind |-> "While", condition |-> condition, body |-> body]

StmtVar(name, initializer) == [kind |-> "Var", name |-> name, initializer |-> initializer]

(***************************************************************************)
(* parser.rs.  A production returns Result<_, Error> and moves current:    *)
(* [ok, val, p] is the result, its value and the parser afterwards.  The   *)
(* backquotes of the messages are written as ' here.                       *)
(***************************************************************************)
\* Parser::new
ParserNew(tokens) == [tokens |-> tokens, current |-> 0, errs |-> <<>>, panicked |-> FALSE]

Ok(val, p) == [ok |-> TRUE, val |-> val, p |-> p]

Err(p) == [ok |-> FALSE, val |-> None, p |-> p]

\* Parser::peek: tokens.get(current).unwrap()
parser_peek_ok(p) == p.current < Len(p.tokens)

parser_peek(p) == p.tokens[p.current + 1]

\* Parser::previous: tokens.get(current - 1).expect(..)
previous_ok(p) == 1 <= p.current /\ p.current <= Len(p.tokens)

previous(p) == p.tokens[p.current]

\* Parser::is_at_end; a parser that has panicked does nothing more
parser_is_at_end(p) == p.panicked \/ ~parser_peek_ok(p) \/ parser_peek(p).type_ = "Eof"

\* the panic of is_at_end's peek()
is_at_end_panics(p) == ~p.panicked /\ ~parser_peek_ok(p)

\* an advance that does not look whether the parser is at the end
parser_advance_past_end(p) ==
    IF p.panicked THEN p
    ELSE IF ~parser_peek_ok(p) THEN Panic(p)
    ELSE [p EXCEPT !.current = @ + 1]

\* Parser::advance; the token it returns is previous() of the result
parser_advance(p) ==
    IF p.panicked THEN p
    ELSE IF ~parser_peek_ok(p) THEN Panic(p)
    ELSE LET p1 == IF parser_peek(p).type_ # "Eof" THEN [p EXCEPT !.current = @ + 1] ELSE p
         IN  IF previous_ok(p1) THEN p1 ELSE Panic(p1)

\* Parser::check
check(p, token_type) == ~parser_is_at_end(p) /\ parser_peek(p).type_ = token_type

\* Parser::match_next: whether it returns true
parser_match_hit(p, token_types) == \E token_type \in token_types : check(p, token_type)

\* Parser::match_next: its effect on the parser
parser_match_next(p, token_types) ==
    IF is_at_end_panics(p) THEN Panic(p)
    ELSE IF parser_match_hit(p, token_types) THEN parser_advance(p)
    ELSE p

\* crate::error_token (main.rs:85-91)
error_token(token, message) ==
    IF token.type_ = "Eof" THEN report(token.line, " at end", message)
    ELSE report(token.line, " at '" \o token.lexeme \o "'", message)

\* Parser::error: the diagnostic is written; the value is Error::ParseError
parser_error(p, token, message) == IF p.panicked THEN p ELSE [p EXCEPT !.errs = Append(@, error_token(token, message))]

\* Parser::error at peek()
error_at_peek(p, message) ==
    IF p.panicked THEN p
    ELSE IF ~parser_peek_ok(p) THEN Panic(p)
    ELSE parser_error(p, parser_peek(p), message)

\* Parser::match_err
match_err(p, token_type, message) ==
    IF is_at_end_panics(p) THEN Err(Panic(p))
    ELSE IF check(p, token_type) THEN Ok(parser_peek(p), parser_advance(p))
    ELSE Err(error_at_peek(p, message))

RECURSIVE declaration(_), var_declaration(_), statement(_), for_statement(_), if_statement(_), print_statement(_), while_statement(_), block(_), block_loop(_, _), expression_statement(_)
RECURSIVE expression(_), assignment(_), logic_or(_), logic_or_loop(_, _), logic_and(_), logic_and_loop(_, _), equality(_), equality_loop(_, _), comparison(_), comparison_loop(_, _), term(_), term_loop(_, _), factor(_), factor_loop(_, _), unary(_), primary(_)

\* `x?` followed by the rest of the function: the Err is returned at once,
\* else the rest goes on from the value and the parser after it
Try(r, rest(_, _)) == IF r.ok THEN rest(r.val, r.p) ELSE r

\* `let x = ..;` followed by the rest of the function
With(x, rest(_)) == rest(x)

\* Parser::primary
primary(p) ==
    IF is_at_end_panics(p) THEN Err(Panic(p))
    ELSE IF parser_match_hit(p, {"False"}) THEN Ok(ExprLiteral(LitBool(FALSE)), parser_advance(p))
    ELSE IF parser_match_hit(p, {"True"}) THEN Ok(ExprLiteral(LitBool(TRUE)), parser_advance(p))
    ELSE IF parser_match_hit(p, {"Nil"}) THEN Ok(ExprLiteral(LitNil), parser_advance(p))
    ELSE IF parser_match_hit(p, {"Number", "String_"}) THEN Ok(ExprLiteral(previous(parser_advance(p)).literal), parser_advance(p))
    ELSE IF parser_match_hit(p, {"LeftParen"})
         THEN Try(expression(parser_advance(p)), LAMBDA expr, p1 :
              Try(match_err(p1, "RightParen", "Expected ')' after expression."), LAMBDA paren, p2 :
              Ok(ExprGrouping(expr), p2)))
    ELSE IF parser_match_hit(p, {"Identifier"}) THEN Ok(ExprVariable(previous(parser_advance(p))), parser_advance(p))
    ELSE Err(error_at_peek(p, "Expected expression."))

\* Parser::unary
unary(p) ==
    IF parser_match_hit(p, {"Bang", "Minus"})
    THEN Try(unary(parser_advance(p)), LAMBDA right, p1 :
         Ok(ExprUnary(previous(parser_advance(p)), right), p1))
    ELSE primary(p)

\* parser.rs:334-342
factor_loop(p, expr) ==
    IF parser_match_hit(p, {"Slash", "Star"})
    THEN Try(unary(parser_advance(p)), LAMBDA right, p1 :
         factor_loop(p1, ExprBinary(expr, previous(parser_advance(p)), right)))
    ELSE Ok(expr, p)

\* Parser::factor
factor(p) == Try(unary(p), LAMBDA expr, p1 : factor_loop(p1, expr))

\* a term loop that folds to the right: the right operand is a whole term
term_loop_right(p, expr) ==
    IF parser_match_hit(p, {"Minus", "Plus"})
    THEN Try(term(parser_advance(p)), LAMBDA right, p1 :
         Ok(ExprBinary(expr, previous(parser_advance(p)), right), p1))
    ELSE Ok(expr, p)

\* parser.rs:317-325
term_loop(p, expr) ==
    IF parser_match_hit(p, {"Minus", "Plus"})
    THEN Try(factor(parser_advance(p)), LAMBDA right, p1 :
         term_loop(p1, ExprBinary(expr, previous(parser_advance(p)), right)))
    ELSE Ok(expr, p)

\* Parser::term
term(p) == Try(factor(p), LAMBDA expr, p1 : term_loop(p1, expr))

\* parser.rs:300-308
comparison_loop(p, expr) ==
    IF parser_match_hit(p, {"Greater", "GreaterEqual", "Less", "LessEqual"})
    THEN Try(term(parser_advance(p)), LAMBDA right, p1 :
         comparison_loop(p1, ExprBinary(expr, previous(parser_advance(p)), right)))
    ELSE Ok(expr, p)

\* Parser::comparison
comparison(p) == Try(term(p), LAMBDA expr, p1 : comparison_loop(p1, expr))

\* parser.rs:283-291
equality_loop(p, expr) ==
    IF parser_match_hit(p, {"BangEqual", "EqualEqual"})
    THEN Try(comparison(parser_advance(p)), LAMBDA right, p1 :
         equality_loop(p1, ExprBinary(expr, previous(parser_advance(p)), right)))
    ELSE Ok(expr, p)

\* Parser::equality
equality(p) == Try(comparison(p), LAMBDA expr, p1 : equality_loop(p1, expr))

\* parser.rs:266-274
logic_and_loop(p, expr) ==
    IF parser_match_hit(p, {"And"})
    THEN Try(equality(parser_advance(p)), LAMBDA right, p1 :
         logic_and_loop(p1, ExprLogical(expr, previous(parser_advance(p)), right)))
    ELSE Ok(expr, p)

\* Parser::logic_and
logic_and(p) == Try(equality(p), LAMBDA expr, p1 : logic_and_loop(p1, expr))

\* parser.rs:249-257
logic_or_loop(p, expr) ==
    IF parser_match_hit(p, {"Or"})
    THEN Try(logic_and(parser_advance(p)), LAMBDA right, p1 :
         logic_or_loop(p1, ExprLogical(expr, previous(parser_advance(p)), right)))
    ELSE Ok(expr, p)

\* Parser::logic_or
logic_or(p) == Try(logic_and(p), LAMBDA expr, p1 : logic_or_loop(p1, expr))

\* an assignment that returns the Invalid assignment target error to its
\* caller instead of going on
assignment_bubbles(p) ==
    Try(logic_or(p), LAMBDA expr, p1 :
    IF parser_match_hit(p1, {"Equal"})
    THEN Try(assignment(parser_advance(p1)), LAMBDA value, p2 :
         IF expr.kind = "Variable" THEN Ok(ExprAssign(expr.name, value), p2)
         ELSE Err(parser_error(p2, previous(parser_advance(p1)), "Invalid assignment target.")))
    ELSE Ok(expr, p1))

\* Parser::assignment
assignment(p) ==
    Try(logic_or(p), LAMBDA expr, p1 :
    IF parser_match_hit(p1, {"Equal"})
    THEN Try(assignment(parser_advance(p1)), LAMBDA value, p2 :
         IF expr.kind = "Variable" THEN Ok(ExprAssign(expr.name, value), p2)
         ELSE Ok(expr, parser_error(p2, previous(parser_advance(p1)), "Invalid assignment target.")))
    ELSE Ok(expr, p1))

\* Parser::expression
expression(p) == assignment(p)

\* Parser::expression_statement
expression_statement(p) ==
    Try(expression(p), LAMBDA expr, p1 :
    Try(match_err(p1, "Semicolon", "Expected ';' after expression."), LAMBDA semicolon, p2 :
    Ok(StmtExpression(expr), p2)))

\* parser.rs:197-199
block_loop(p, stmts) ==
    IF ~check(p, "RightBrace") /\ ~parser_is_at_end(p)
    THEN Try(declaration(p), LAMBDA stmt, p1 : block_loop(p1, Append(stmts, stmt)))
    ELSE Ok(stmts, p)

\* Parser::block
block(p) ==
    Try(block_loop(p, <<>>), LAMBDA stmts, p1 :
    Try(match_err(p1, "RightBrace", "Expected '}' after block."), LAMBDA brace, p2 :
    Ok(stmts, p2)))

\* Parser::while_statement
while_statement(p) ==
    Try(match_err(p, "LeftParen", "Expected '(' after 'while'."), LAMBDA left, p1 :
    Try(expression(p1), LAMBDA condition, p2 :
    Try(match_err(p2, "RightParen", "Expected ')' after condition."), LAMBDA right, p3 :
    Try(statement(p3), LAMBDA body, p4 :
    Ok(StmtWhile(condition, body), p4)))))

\* Parser::print_statement
print_statement(p) ==
    Try(expression(p), LAMBDA value, p1 :
    Try(match_err(p1, "Semicolon", "Expected ';' after value."), LAMBDA semicolon, p2 :
    Ok(StmtPrint(value), p2)))

\* Parser::if_statement
if_statement(p) ==
    Try(match_err(p, "LeftParen", "Expected '(' after 'if'."), LAMBDA left, p1 :
    Try(expression(p1), LAMBDA condition, p2 :
    Try(match_err(p2, "RightParen", "Expected ')' after condition."), LAMBDA right, p3 :
    Try(statement(p3), LAMBDA then_branch, p4 :
    IF parser_match_hit(p4, {"Else"})
    THEN Try(statement(parser_advance(p4)), LAMBDA else_branch, p5 :
         Ok(StmtIf(condition, then_branch, Some(else_branch)), p5))
    ELSE Ok(StmtIf(condition, then_branch, None), parser_match_next(p4, {"Else"}))))))

\* parser.rs:100-107: Result<Option<Stmt>, Error>
for_initializer(p) ==
    IF parser_match_hit(p, {"Semicolon"}) THEN Ok(None, parser_advance(p))
    ELSE IF parser_match_hit(p, {"Var"})
         THEN Try(var_declaration(parser_advance(p)), LAMBDA stmt, p1 : Ok(Some(stmt), p1))
    ELSE Try(expression_statement(parser_match_next(p, {"Semicolon", "Var"})), LAMBDA stmt, p1 : Ok(Some(stmt), p1))

\* parser.rs:112-116
for_condition(p) ==
    Try(IF ~check(p, "Semicolon") THEN expression(p) ELSE Ok(ExprLiteral(LitBool(TRUE)), p), LAMBDA condition, p1 :
    Try(match_err(p1, "Semicolon", "Expected ';' after 'for' condition."), LAMBDA semicolon, p2 :
    Ok(condition, p2)))

\* parser.rs:118-122: Result<Option<Expr>, Error>
for_increment(p) ==
    Try(IF ~check(p, "RightParen")
        THEN Try(expression(p), LAMBDA expr, p1 : Ok(Some(expr), p1))
        ELSE Ok(None, p), LAMBDA increment, p2 :
    Try(match_err(p2, "RightParen", "Expected ')' after 'for' clause."), LAMBDA paren, p3 :
    Ok(increment, p3)))

\* a rewriting that always wraps the loop in a Block, with or without an
\* initializer
desugar_always_block(initializer, condition, increment, body) ==
    LET body1 == IF increment # None THEN StmtBlock(<<body, StmtExpression(increment[1])>>) ELSE body
        body2 == StmtWhile(condition, body1)
    IN  IF initializer # None THEN StmtBlock(<<initializer[1], body2>>) ELSE StmtBlock(<<body2>>)

\* parser.rs:133-150: the tree a 'for' is rewritten to
desugar(initializer, condition, increment, body) ==
    LET body1 == IF increment # None THEN StmtBlock(<<body, StmtExpression(increment[1])>>) ELSE body
        body2 == StmtWhile(condition, body1)
    IN  IF initializer # None THEN StmtBlock(<<initializer[1], body2>>) ELSE body2

\* Parser::for_statement
for_statement(p) ==
    Try(match_err(p, "LeftParen", "Expect '(' after 'for'."), LAMBDA left, p1 :
    Try(for_initializer(p1), LAMBDA initializer, p2 :
    Try(for_condition(p2), LAMBDA condition, p3 :
    Try(for_increment(p3), LAMBDA increment, p4 :
    Try(statement(p4), LAMBDA body, p5 :
    Ok(desugar(initializer, condition, increment, body), p5))))))

\* Parser::statement
statement(p) ==
    IF is_at_end_panics(p) THEN Err(Panic(p))
    ELSE IF parser_match_hit(p, {"For"}) THEN for_statement(parser_advance(p))
    ELSE IF parser_match_hit(p, {"If"}) THEN if_statement(parser_advance(p))
    ELSE IF parser_match_hit(p, {"Print"}) THEN print_statement(parser_advance(p))
    ELSE IF parser_match_hit(p, {"While"}) THEN while_statement(parser_advance(p))
    ELSE IF parser_match_hit(p, {"LeftBrace"})
         THEN Try(block(parser_advance(p)), LAMBDA stmts, p1 : Ok(StmtBlock(stmts), p1))
    ELSE expression_statement(p)

\* Parser::var_declaration
var_declaration(p) ==
    Try(match_err(p, "Identifier", "Expected variable name."), LAMBDA name, p1 :
    Try(IF parser_match_hit(p1, {"Equal"})
        THEN Try(expression(parser_advance(p1)), LAMBDA expr, p2 : Ok(Some(expr), p2))
        ELSE Ok(None, parser_match_next(p1, {"Equal"})), LAMBDA initializer, p3 :
    Try(match_err(p3, "Semicolon", "Expected ';' after variable declaration."), LAMBDA semicolon, p4 :
    Ok(StmtVar(name, initializer), p4))))

\* Parser::declaration
declaration(p) ==
    IF parser_match_hit(p, {"Var"}) THEN var_declaration(parser_advance(p))
    ELSE statement(parser_match_next(p, {"Var"}))

\* the tokens before which synchronize stops (parser.rs:451-459)
SyncKeywords == {"Class", "Fun", "Var", "For", "If", "While", "Print", "Return"}

RECURSIVE synchronize_to_keyword(_)
\* a synchronize loop that does not stop after a ';': it skips to the next
\* statement keyword
synchronize_to_keyword(p) ==
    IF parser_is_at_end(p) THEN (IF is_at_end_panics(p) THEN Panic(p) ELSE p)
    ELSE IF ~previous_ok(p) THEN Panic(p)
    ELSE IF parser_peek(p).type_ \in SyncKeywords THEN p
    ELSE synchronize_to_keyword(parser_advance(p))

RECURSIVE synchronize_loop(_)
\* parser.rs:446-465
synchronize_loop(p) ==
    IF parser_is_at_end(p) THEN (IF is_at_end_panics(p) THEN Panic(p) ELSE p)
    ELSE IF ~previous_ok(p) THEN Panic(p)
    ELSE IF previous(p).type_ = "Semicolon" THEN p
    ELSE IF parser_peek(p).type_ \in SyncKeywords THEN p
    ELSE synchronize_loop(parser_advance(p))

\* a synchronize that does not advance before its loop
synchronize_in_place(p) == synchronize_loop(p)

\* Parser::synchronize
synchronize(p) == synchronize_loop(parser_advance(p))

\* Parser::declaration_wrapper: Option<Stmt>
declaration_wrapper(p) ==
    With(declaration(p), LAMBDA res :
    IF ~res.ok THEN [res EXCEPT !.p = synchronize(res.p), !.val = None]
    ELSE [res EXCEPT !.val = Some(res.val)])

RECURSIVE parse_loop(_, _)
\* parser.rs:24-28, run to the end: the statements collected and the parser
parse_loop(p, stmts) ==
    IF parser_is_at_end(p) THEN [statements |-> stmts, p |-> IF is_at_end_panics(p) THEN Panic(p) ELSE p]
    ELSE With(declaration_wrapper(p), LAMBDA d :
         parse_loop(d.p, IF d.val # None THEN Append(stmts, d.val[1]) ELSE stmts))

\* Parser::parse run to its return (or to a panic)
parse(tokens) == parse_loop(ParserNew(tokens), <<>>)

(***************************************************************************)
(* token.rs: Value, and f64 arithmetic on exact decimals.                  *)
(***************************************************************************)
ValNil == <<"Nil">>

ValBool(b) == <<"Bool", b>>

ValNumber(m, s) == <<"Number", Normalise(m, s)[1], Normalise(m, s)[2]>>

ValString(str) == <<"String_", str>>

\* impl From<Literal> for Value (token.rs:68-77)
ValueFrom(literal) ==
    CASE literal[1] = "Number" -> ValNumber(literal[2], literal[3])
      [] literal[1] = "String_" -> ValString(literal[2])
      [] literal[1] = "Bool" -> ValBool(literal[2])
      [] literal[1] = "Nil" -> ValNil

is_number(v) == v[1] = "Number"

RECURSIVE Pow10(_)
Pow10(n) == IF n = 0 THEN 1 ELSE 10 * Pow10(n - 1)

Max(a, b) == IF a >= b THEN a ELSE b

Abs(n) == IF n < 0 THEN -n ELSE n

\* the mantissa of x at scale s >= x's scale
MantissaAt(x, s) == x[2] * Pow10(s - x[3])

NumAdd(x, y) == ValNumber(MantissaAt(x, Max(x[3], y[3])) + MantissaAt(y, Max(x[3], y[3])), Max(x[3], y[3]))

NumSub(x, y) == ValNumber(MantissaAt(x, Max(x[3], y[3])) - MantissaAt(y, Max(x[3], y[3])), Max(x[3], y[3]))

NumMul(x, y) == ValNumber(x[2] * y[2], x[3] + y[3])

NumNeg(x) == ValNumber(-x[2], x[3])

NumLess(x, y) == MantissaAt(x, Max(x[3], y[3])) < MantissaAt(y, Max(x[3], y[3]))

NumIsZero(x) == x[2] = 0

\* x / y for y # 0, exact when the quotient has at most six decimals
NumDiv(x, y) ==
    LET a == MantissaAt(x, Max(x[3], y[3]))
        b == MantissaAt(y, Max(x[3], y[3]))
        q == (Abs(a) * 1000000) \div Abs(b)
    IN  ValNumber(IF (a < 0) # (b < 0) THEN -q ELSE q, 6)

\* an equality that coerces: nil and false are also equal to each other
ValueEqCoercing(x, y) == x = y \/ {x, y} = {<<"Nil">>, <<"Bool", FALSE>>}

\* derived PartialEq on Value (token.rs:48)
ValueEq(x, y) ==
    /\ x[1] = y[1]
    /\ CASE x[1] = "Nil" -> TRUE
         [] x[1] = "Number" -> x[2] = y[2] /\ x[3] = y[3]
         [] OTHER -> x[2] = y[2]

RECURSIVE NatToString(_)
NatToString(n) == IF n < 10 THEN DigitChar(n) ELSE NatToString(n \div 10) \o DigitChar(n % 10)

RECURSIVE FractionToString(_, _)
\* the s digits of the fraction m / 10^s
FractionToString(m, s) == IF s = 0 THEN "" ELSE FractionToString(m \div 10, s - 1) \o DigitChar(m % 10)

\* f64::to_string of the decimal <<m, s>>
NumberToString(m, s) ==
    (IF m < 0 THEN "-" ELSE "") \o NatToString(Abs(m) \div Pow10(s)) \o (IF s = 0 THEN "" ELSE "." \o FractionToString(Abs(m) % Pow10(s), s))

\* a Display that writes a string between its quotes, as the literal was typed
to_string_quoted(v) ==
    CASE v[1] = "Number" -> NumberToString(v[2], v[3])
      [] v[1] = "String_" -> "\"" \o v[2] \o "\""
      [] v[1] = "Bool" -> (IF v[2] THEN "true" ELSE "false")
      [] v[1] = "Nil" -> "nil"

\* impl Display for Value (token.rs:56-66)
to_string(v) ==
    CASE v[1] = "Number" -> NumberToString(v[2], v[3])
      [] v[1] = "String_" -> v[2]
      [] v[1] = "Bool" -> (IF v[2] THEN "true" ELSE "false")
      [] v[1] = "Nil" -> "nil"

(***************************************************************************)
(* environment.rs.  A HashMap is a function on its set of keys.            *)
(***************************************************************************)
EmptyMap == <<>>

contains_key(map, key) == key \in DOMAIN map

insert(map, key, value) == [k \in DOMAIN map \union {key} |-> IF k = key THEN value ELSE map[k]]

\* Environment::new
EnvironmentNew(enclosing) == [enclosing |-> enclosing, values |-> EmptyMap, parent_modified |-> EmptyMap]

\* Error::RuntimeError { token, message }
RuntimeError(token, message) == [token |-> token, message |-> message]

\* Environment::undefined_variable_error
undefined_variable_error(token) == RuntimeError(token, "Undefined variable '" \o token.lexeme \o "'.")

\* Environment::define
define(env, name, value) == [env EXCEPT !.values = insert(@, name, value)]

RECURSIVE get_initialized(_, _)
\* a get that passes over an uninitialized binding when an enclosing frame
\* may have the name
get_initialized(env, name) ==
    IF contains_key(env.values, name.lexeme) /\ (env.values[name.lexeme] # None \/ env.enclosing = None)
    THEN <<"Ok", env.values[name.lexeme]>>
    ELSE IF env.enclosing # None THEN get_initialized(env.enclosing[1], name)
    ELSE <<"Err", undefined_variable_error(name)>>

RECURSIVE get(_, _)
\* Environment::get: <<"Ok", Option<Value>>> or <<"Err", RuntimeError>>
get(env, name) ==
    IF contains_key(env.values, name.lexeme) THEN <<"Ok", env.values[name.lexeme]>>
    ELSE IF env.enclosing # None THEN get(env.enclosing[1], name)
    ELSE <<"Err", undefined_variable_error(name)>>

RECURSIVE assign_or_define(_, _, _)
\* an assign that defines the name in the outermost frame when no frame has it
assign_or_define(env, name, value) ==
    IF contains_key(env.values, name.lexeme)
    THEN [ok |-> TRUE, env |-> [env EXCEPT !.values = insert(@, name.lexeme, Some(value))], err |-> None]
    ELSE IF env.enclosing # None
         THEN LET r == assign_or_define(env.enclosing[1], name, value)
              IN  [ok |-> TRUE, env |-> [env EXCEPT !.enclosing = Some(r.env), !.parent_modified = insert(@, name.lexeme, value)], err |-> None]
    ELSE [ok |-> TRUE, env |-> define(env, name.lexeme, Some(value)), err |-> None]

RECURSIVE assign(_, _, _)
\* Environment::assign: [ok, env, err], env the environment afterwards
assign(env, name, value) ==
    IF contains_key(env.values, name.lexeme)
    THEN [ok |-> TRUE, env |-> [env EXCEPT !.values = insert(@, name.lexeme, Some(value))], err |-> None]
    ELSE IF env.enclosing # None
         THEN LET r == assign(env.enclosing[1], name, value)
              IN  IF ~r.ok THEN [ok |-> FALSE, env |-> env, err |-> r.err]
                  ELSE [ok |-> TRUE, env |-> [env EXCEPT !.enclosing = Some(r.env), !.parent_modified = insert(@, name.lexeme, value)], err |-> None]
    ELSE [ok |-> FALSE, env |-> env, err |-> Some(undefined_variable_error(name))]

\* an assign_string that writes the binding into the frame it is called on
assign_string_own_frame(env, name, value) ==
    [env |-> [env EXCEPT !.values = insert(@, name, Some(value))], panicked |-> FALSE]

RECURSIVE assign_string(_, _, _)
\* Environment::assign_string: [env, panicked], env the environment afterwards
\* and panicked whether the panic! of line 96 was reached
assign_string(env, name, value) ==
    IF contains_key(env.values, name)
    THEN [env |-> [env EXCEPT !.values = insert(@, name, Some(value))], panicked |-> FALSE]
    ELSE IF env.enclosing # None
         THEN LET r == assign_string(env.enclosing[1], name, value)
              IN  IF r.panicked THEN [env |-> env, panicked |-> TRUE]
                  ELSE [env |-> [env EXCEPT !.enclosing = Some(r.env), !.parent_modified = insert(@, name, value)], panicked |-> FALSE]
    ELSE [env |-> env, panicked |-> TRUE]

\* the orders in which a HashMap may hand out its keys
IterationOrders(map) ==
    {keys \in [1..Cardinality(DOMAIN map) -> DOMAIN map] : \A i, j \in 1..Cardinality(DOMAIN map) : keys[i] = keys[j] => i = j}

RECURSIVE update(_, _, _)
\* Environment::update, the loop visiting the keys of update_from.parent_modified
\* in the order `keys`: [env, panicked]
update(env, update_from, keys) ==
    IF keys = <<>> THEN [env |-> env, panicked |-> FALSE]
    ELSE LET r == assign_string(env, Head(keys), update_from.parent_modified[Head(keys)])
         IN  IF r.panicked THEN r ELSE update(r.env, update_from, Tail(keys))

(***************************************************************************)
(* interpreter.rs: expressions.  evaluate returns [ok, val, env, err]:     *)
(* Result<Value, Error> and *self.environment afterwards.                  *)
(***************************************************************************)
EvalOk(val, env) == [ok |-> TRUE, val |-> val, env |-> env, err |-> None]

EvalErr(err, env) == [ok |-> FALSE, val |-> None, env |-> env, err |-> Some(err)]

\* a truthiness that takes the empty string for false
is_truthy_empty_false(value) ==
    CASE value[1] = "Nil" -> FALSE
      [] value[1] = "Bool" -> value[2]
      [] value[1] = "String_" -> value[2] # ""
      [] OTHER -> TRUE

\* a truthiness that takes the number 0 for false
is_truthy_zero_false(value) ==
    CASE value[1] = "Nil" -> FALSE
      [] value[1] = "Bool" -> value[2]
      [] value[1] = "Number" -> value[2] # 0
      [] OTHER -> TRUE

\* Interpreter::is_truthy
is_truthy(value) ==
    CASE value[1] = "Nil" -> FALSE
      [] value[1] = "Bool" -> value[2]
      [] OTHER -> TRUE

\* Interpreter::operand_not_number_error
operand_not_number_error(token) == RuntimeError(token, "Operand(s) must be a number.")

\* a division whose zero divisor is not looked at: the quotient of a division
\* by zero stands for the infinity or NaN of f64
divide_unchecked(operator, x, y, env) ==
    IF NumIsZero(y) THEN EvalOk(<<"Number", "inf", 0>>, env) ELSE EvalOk(NumDiv(x, y), env)

\* interpreter.rs:87-95: x / y on two numbers
divide(operator, x, y, env) ==
    IF NumIsZero(y) THEN EvalErr(RuntimeError(operator, "Divide by zero."), env)
    ELSE EvalOk(NumDiv(x, y), env)

\* interpreter.rs:50-126: the operator applied to the two operand values
binary_op(operator, left_eval, right_eval, env) ==
    LET numbers == is_number(left_eval) /\ is_number(right_eval)
        type_ == operator.type_
    IN  CASE type_ = "Greater" -> IF numbers THEN EvalOk(ValBool(NumLess(right_eval, left_eval)), env) ELSE EvalErr(operand_not_number_error(operator), env)
          [] type_ = "GreaterEqual" -> IF numbers THEN EvalOk(ValBool(~NumLess(left_eval, right_eval)), env) ELSE EvalErr(operand_not_number_error(operator), env)
          [] type_ = "Less" -> IF numbers THEN EvalOk(ValBool(NumLess(left_eval, right_eval)), env) ELSE EvalErr(operand_not_number_error(operator), env)
          [] type_ = "LessEqual" -> IF numbers THEN EvalOk(ValBool(~NumLess(right_eval, left_eval)), env) ELSE EvalErr(operand_not_number_error(operator), env)
          [] type_ = "Minus" -> IF numbers THEN EvalOk(NumSub(left_eval, right_eval), env) ELSE EvalErr(operand_not_number_error(operator), env)
          [] type_ = "Slash" -> IF numbers THEN divide(operator, left_eval, right_eval, env) ELSE EvalErr(operand_not_number_error(operator), env)
          [] type_ = "Star" -> IF numbers THEN EvalOk(NumMul(left_eval, right_eval), env) ELSE EvalErr(operand_not_number_error(operator), env)
          [] type_ = "Plus" -> IF numbers THEN EvalOk(NumAdd(left_eval, right_eval), env)
                               ELSE EvalOk(ValString(to_string(left_eval) \o to_string(right_eval)), env)
          [] type_ = "BangEqual" -> EvalOk(ValBool(~ValueEq(left_eval, right_eval)), env)
          [] type_ = "EqualEqual" -> EvalOk(ValBool(ValueEq(left_eval, right_eval)), env)

RECURSIVE evaluate(_, _), visit_unary_expr(_, _, _), visit_binary_expr(_, _, _, _), visit_assign_expr(_, _, _), visit_logical_expr(_, _, _, _)

\* Interpreter::visit_literal_expr
visit_literal_expr(env, value) == EvalOk(ValueFrom(value), env)

\* Interpreter::visit_unary_expr
visit_unary_expr(env, operator, right) ==
    LET right_eval == evaluate(env, right)
    IN  IF ~right_eval.ok THEN right_eval
        ELSE CASE operator.type_ = "Bang" -> EvalOk(ValBool(~is_truthy(right_eval.val)), right_eval.env)
               [] operator.type_ = "Minus" -> IF is_number(right_eval.val) THEN EvalOk(NumNeg(right_eval.val), right_eval.env)
                                             ELSE EvalErr(operand_not_number_error(operator), right_eval.env)

\* Interpreter::visit_binary_expr
visit_binary_expr(env, left, operator, right) ==
    LET left_eval == evaluate(env, left)
    IN  IF ~left_eval.ok THEN left_eval
        ELSE LET right_eval == evaluate(left_eval.env, right)
             IN  IF ~right_eval.ok THEN right_eval
                 ELSE binary_op(operator, left_eval.val, right_eval.val, right_eval.env)

\* Interpreter::visit_variable_expr
visit_variable_expr(env, name) ==
    LET v == get(env, name)
    IN  IF v[1] = "Err" THEN EvalErr(v[2], env)
        ELSE IF v[2] = None THEN EvalErr(RuntimeError(name, "Variable not initialized."), env)
        ELSE EvalOk(v[2][1], env)

\* an assignment that evaluates its right-hand side again for its own value
visit_assign_twice(env, name, value) ==
    LET value_eval == evaluate(env, value)
    IN  IF ~value_eval.ok THEN value_eval
        ELSE LET a == assign(value_eval.env, name, value_eval.val)
             IN  IF ~a.ok THEN EvalErr(a.err[1], a.env) ELSE evaluate(a.env, value)

\* Interpreter::visit_assign_expr
visit_assign_expr(env, name, value) ==
    LET value_eval == evaluate(env, value)
    IN  IF ~value_eval.ok THEN value_eval
        ELSE LET a == assign(value_eval.env, name, value_eval.val)
             IN  IF ~a.ok THEN EvalErr(a.err[1], a.env) ELSE EvalOk(value_eval.val, a.env)

\* the Logical rule of the evaluator; interpreter.rs has no visit_logical_expr
visit_logical_expr(env, left, operator, right) ==
    LET left_eval == evaluate(env, left)
    IN  IF ~left_eval.ok THEN left_eval
        ELSE IF operator.type_ = "Or" /\ is_truthy(left_eval.val) THEN left_eval
        ELSE IF operator.type_ = "And" /\ ~is_truthy(left_eval.val) THEN left_eval
        ELSE evaluate(left_eval.env, right)

\* Interpreter::evaluate through ExprVisitor::accept_expr (expr.rs:36-60)
evaluate(env, expr) ==
    CASE expr.kind = "Assign" -> visit_assign_expr(env, expr.name, expr.value)
      [] expr.kind = "Binary" -> visit_binary_expr(env, expr.left, expr.operator, expr.right)
      [] expr.kind = "Grouping" -> evaluate(env, expr.expression)
      [] expr.kind = "Literal" -> visit_literal_expr(env, expr.value)
      [] expr.kind = "Logical" -> visit_logical_expr(env, expr.left, expr.operator, expr.right)
      [] expr.kind = "Unary" -> visit_unary_expr(env, expr.operator, expr.right)
      [] expr.kind = "Variable" -> visit_variable_expr(env, expr.name)

(***************************************************************************)
(* interpreter.rs: statements, as a state machine.  `stack` is the call    *)
(* stack of the tree walk, innermost call last.  A frame is a running      *)
(* loop over statements: interpret's (interpreter.rs:183), execute_block's *)
(* (interpreter.rs:203, with the environment it swapped out in new_env),   *)
(* or a 'while' statement's (its body in stmts while a turn runs).         *)
(***************************************************************************)
Frame(kind, stmts, new_env, loop) == [kind |-> kind, stmts |-> stmts, new_env |-> new_env, loop |-> loop]

Top == stack[Len(stack)]

Pop == SubSeq(stack, 1, Len(stack) - 1)

Running == run_pc = "interpret" /\ stack # <<>> /\ pending = None

\* the innermost loop is about to execute() its next statement
HasStmt == Running /\ Top.stmts # <<>>

Current == Head(Top.stmts)

\* the innermost loop has moved past Current
Advanced == [stack EXCEPT ![Len(stack)].stmts = Tail(@)]

\* Interpreter::visit_expression_stmt
visit_expression_stmt ==
    /\ HasStmt
    /\ Current.kind = "Expression"
    /\ LET r == evaluate(environment, Current.expression)
       IN  environment' = r.env /\ pending' = r.err
    /\ stack' = Advanced
    /\ UNCHANGED <<scope_vars, eval_ret, scan_vars, parse_vars, source, output, stderr, run_pc, run_ret, exit_code>>

\* Interpreter::visit_print_stmt
visit_print_stmt ==
    /\ HasStmt
    /\ Current.kind = "Print"
    /\ Len(output) < MaxOutput
    /\ LET value == evaluate(environment, Current.expression)
       IN  /\ environment' = value.env
           /\ pending' = value.err
           /\ output' = IF value.ok THEN Append(output, to_string(value.val)) ELSE output
    /\ stack' = Advanced
    /\ UNCHANGED <<scope_vars, eval_ret, scan_vars, parse_vars, source, stderr, run_pc, run_ret, exit_code>>

\* Interpreter::visit_var_stmt
visit_var_stmt ==
    /\ HasStmt
    /\ Current.kind = "Var"
    /\ IF Current.initializer # None
       THEN LET value == evaluate(environment, Current.initializer[1])
            IN  /\ environment' = IF value.ok THEN define(value.env, Current.name.lexeme, Some(value.val)) ELSE value.env
                /\ pending' = value.err
       ELSE environment' = define(environment, Current.name.lexeme, None) /\ pending' = None
    /\ stack' = Advanced
    /\ UNCHANGED <<scope_vars, eval_ret, scan_vars, parse_vars, source, output, stderr, run_pc, run_ret, exit_code>>

\* Interpreter::visit_block_stmt up to the first swap of execute_block
\* (interpreter.rs:147-150, 200-202)
visit_block_stmt ==
    /\ HasStmt
    /\ Current.kind = "Block"
    /\ environment' = EnvironmentNew(Some(environment))
    /\ stack' = Append(Advanced, Frame("execute_block", Current.statements, Some(environment), None))
    /\ UNCHANGED <<scope_vars, eval_ret, scan_vars, parse_vars, source, pending, output, stderr, run_pc, run_ret, exit_code>>

\* an execute_block that leaves without the swap back: the block's frame
\* stays the current one
execute_block_keeps_child ==
    /\ Running
    /\ Top.kind = "execute_block"
    /\ Top.stmts = <<>>
    /\ stack' = Pop
    /\ UNCHANGED <<scope_vars, eval_ret, scan_vars, parse_vars, source, environment, pending, output, stderr, run_pc, run_ret, exit_code>>

\* execute_block after its last statement: the swap back (interpreter.rs:206-208)
execute_block_return ==
    /\ Running
    /\ Top.kind = "execute_block"
    /\ Top.stmts = <<>>
    /\ environment' = Top.new_env[1]
    /\ stack' = Pop
    /\ UNCHANGED <<scope_vars, eval_ret, scan_vars, parse_vars, source, pending, output, stderr, run_pc, run_ret, exit_code>>

\* `self.execute(statement)?` returning the Err at once (interpreter.rs:204);
\* the frame's locals, new_env among them, are dropped
propagate ==
    /\ run_pc = "interpret"
    /\ pending # None
    /\ Top.kind # "interpret"
    /\ stack' = Pop
    /\ UNCHANGED <<scope_vars, eval_ret, scan_vars, parse_vars, source, environment, pending, output, stderr, run_pc, run_ret, exit_code>>

\* the While rule of the evaluator on reaching the statement
visit_while_stmt ==
    /\ HasStmt
    /\ Current.kind = "While"
    /\ stack' = Append(Advanced, Frame("while", <<>>, None, Some(Current)))
    /\ UNCHANGED <<scope_vars, eval_ret, scan_vars, parse_vars, source, environment, pending, output, stderr, run_pc, run_ret, exit_code>>

\* the While rule of the evaluator: one test of the condition
while_turn ==
    /\ Running
    /\ Top.kind = "while"
    /\ Top.stmts = <<>>
    /\ LET c == evaluate(environment, Top.loop[1].condition)
       IN  /\ environment' = c.env
           /\ pending' = c.err
           /\ stack' = IF ~c.ok THEN stack
                       ELSE IF is_truthy(c.val) THEN [stack EXCEPT ![Len(stack)].stmts = <<Top.loop[1].body>>]
                       ELSE Pop
    /\ UNCHANGED <<scope_vars, eval_ret, scan_vars, parse_vars, source, output, stderr, run_pc, run_ret, exit_code>>

\* the If rule of the evaluator: the chosen branch is executed next
visit_if_stmt ==
    /\ HasStmt
    /\ Current.kind = "If"
    /\ LET c == evaluate(environment, Current.condition)
       IN  /\ environment' = c.env
           /\ pending' = c.err
           /\ stack' = IF ~c.ok THEN Advanced
                       ELSE IF is_truthy(c.val) THEN [stack EXCEPT ![Len(stack)].stmts = <<Current.then_branch>> \o Tail(@)]
                       ELSE IF Current.else_branch # None THEN [stack EXCEPT ![Len(stack)].stmts = <<Current.else_branch[1]>> \o Tail(@)]
                       ELSE Advanced
    /\ UNCHANGED <<scope_vars, eval_ret, scan_vars, parse_vars, source, output, stderr, run_pc, run_ret, exit_code>>

\* an interpret that reports the error and goes on with the next statement
interpret_err_goes_on ==
    /\ run_pc = "interpret"
    /\ pending # None
    /\ Top.kind = "interpret"
    /\ stderr' = Append(stderr, error_token(pending[1].token, pending[1].message))
    /\ pending' = None
    /\ UNCHANGED <<scope_vars, eval_ret, scan_vars, parse_vars, source, environment, stack, output, run_pc, run_ret, exit_code>>

\* Interpreter::interpret on an Err of execute (interpreter.rs:184-189)
interpret_err ==
    /\ run_pc = "interpret"
    /\ pending # None
    /\ Top.kind = "interpret"
    /\ stderr' = Append(stderr, error_token(pending[1].token, pending[1].message))
    /\ run_ret' = <<"Err", "RuntimeError", pending[1]>>
    /\ pending' = None
    /\ stack' = <<>>
    /\ run_pc' = "returned"
    /\ UNCHANGED <<scope_vars, eval_ret, scan_vars, parse_vars, source, environment, output, exit_code>>

\* Interpreter::interpret after the last statement (interpreter.rs:191)
interpret_ok ==
    /\ Running
    /\ Top.kind = "interpret"
    /\ Top.stmts = <<>>
    /\ run_ret' = <<"Ok">>
    /\ stack' = <<>>
    /\ run_pc' = "returned"
    /\ UNCHANGED <<scope_vars, eval_ret, scan_vars, parse_vars, source, environment, pending, output, stderr, exit_code>>

(***************************************************************************)
(* main.rs: run and run_file.                                              *)
(***************************************************************************)
\* run: the scan (main.rs:57-63)
run_scan ==
    /\ run_pc = "scan"
    /\ scanner' = scan_all(ScannerNew(source))
    /\ scan_ret' = IF scanner'.panicked THEN None ELSE scan_result(scanner')
    /\ scan_pc' = IF scanner'.panicked THEN "panicked" ELSE "returned"
    /\ stderr' = stderr \o scanner'.errs
    /\ run_ret' = IF scanner'.panicked THEN run_ret
                  ELSE IF scan_ret'[1] = "Err" THEN <<"Err", "ScanError">>
                  ELSE IF Len(scan_ret'[2]) = 1 THEN <<"Ok">>
                  ELSE run_ret
    /\ run_pc' = IF scanner'.panicked THEN "panicked"
                 ELSE IF scan_ret'[1] = "Err" \/ Len(scan_ret'[2]) = 1 THEN "returned"
                 ELSE "parse"
    /\ UNCHANGED <<scope_vars, eval_ret, parse_vars, source, environment, stack, pending, output, exit_code>>

\* run: the parse and Interpreter::new (main.rs:65-72); parse returns Ok always
run_parse ==
    /\ run_pc = "parse"
    /\ \E r \in {parse(scan_ret[2])} :
           /\ parser' = r.p
           /\ statements' = r.statements
           /\ parse_pc' = IF r.p.panicked THEN "panicked" ELSE "returned"
           /\ stderr' = stderr \o r.p.errs
           /\ stack' = IF r.p.panicked THEN stack ELSE <<Frame("interpret", r.statements, None, None)>>
           /\ run_pc' = IF r.p.panicked THEN "panicked" ELSE "interpret"
    /\ UNCHANGED <<scope_vars, eval_ret, scan_vars, source, environment, pending, output, run_ret, exit_code>>

\* run_file: the exit code (main.rs:36-40); returning from main exits with 0
run_file_exit ==
    /\ run_pc = "returned"
    /\ exit_code' = IF run_ret[1] = "Ok" THEN 0
                    ELSE IF run_ret[2] \in {"ScanError", "ParseError"} THEN 65
                    ELSE 70
    /\ run_pc' = "exited"
    /\ UNCHANGED <<scope_vars, eval_ret, scan_vars, parse_vars, source, environment, stack, pending, output, stderr, run_ret>>

(***************************************************************************)
(* The programs run.  A program is written as a sequence of words; its     *)
(* text is the words' spellings, a space after each.                       *)
(***************************************************************************)
Spell(w) ==
    CASE w = "var" -> <<"v", "a", "r">>
      [] w = "print" -> <<"p", "r", "i", "n", "t">>
      [] w = "for" -> <<"f", "o", "r">>
      [] w = "while" -> <<"w", "h", "i", "l", "e">>
      [] w = "if" -> <<"i", "f">>
      [] w = "else" -> <<"e", "l", "s", "e">>
      [] w = "true" -> <<"t", "r", "u", "e">>
      [] w = "false" -> <<"f", "a", "l", "s", "e">>
      [] w = "nil" -> <<"n", "i", "l">>
      [] w = "\"s\"" -> <<"\"", "s", "\"">>
      [] w = "1.5" -> <<"1", ".", "5">>
      [] w = "\"\"" -> <<"\"", "\"">>
      [] w = "\"5\"" -> <<"\"", "5", "\"">>
      [] w = "and" -> <<"a", "n", "d">>
      [] w = "or" -> <<"o", "r">>
      [] w = ">=" -> <<">", "=">>
      [] w = "<=" -> <<"<", "=">>
      [] w = "==" -> <<"=", "=">>
      [] w = "!=" -> <<"!", "=">>
      [] OTHER -> <<w>>

RECURSIVE Text(_)
Text(words) == IF words = <<>> THEN <<>> ELSE Spell(Head(words)) \o <<" ">> \o Text(Tail(words))

\* literals, and what `print` writes for each
LiteralWords == {"5", "0", "nil", "true", "false", "\"s\"", "1.5"}

Printed(w) == IF w = "\"s\"" THEN "s" ELSE w

RECURSIVE Repeat(_, _)
Repeat(w, n) == IF n = 0 THEN <<>> ELSE <<w>> \o Repeat(w, n - 1)

\* var a; { a = v; } print a;   with the block nested d deep
OuterAssign(d, v) == Text(<<"var", "a", ";">> \o Repeat("{", d) \o <<"a", "=", v, ";">> \o Repeat("}", d) \o <<"print", "a", ";">>)

\* var x = v1; { var x = v2; print x; } print x;
Shadow(v1, v2) == Text(<<"var", "x", "=", v1, ";", "{", "var", "x", "=", v2, ";", "print", "x", ";", "}", "print", "x", ";">>)

\* for (var i = 0; i < n; i = i + 1) print i;
ForLoop(n) == Text(<<"for", "(", "var", "i", "=", "0", ";", "i", "<", DigitChar(n), ";", "i", "=", "i", "+", "1", ")", "print", "i", ";">>)

\* var a = 1; { print y; } print a;   with the block nested d deep; y is undefined
ErrorInBlock(d) == Text(<<"var", "a", "=", "1", ";">> \o Repeat("{", d) \o <<"print", "y", ";">> \o Repeat("}", d) \o <<"print", "a", ";">>)

RECURSIVE RepeatSeq(_, _)
RepeatSeq(seq, n) == IF n = 0 THEN <<>> ELSE seq \o RepeatSeq(seq, n - 1)

\* statements whose execution yields a RuntimeError (y is undefined)
FailingStmts == {
    <<"print", "y", ";">>,
    <<"y", "=", "1", ";">>,
    <<"var", "b", "=", "-", "true", ";">>,
    <<"1", "/", "0", ";">>,
    <<"{", "print", "y", ";", "}">>,
    <<"if", "(", "y", ")", "print", "3", ";">>,
    <<"while", "(", "y", ")", "print", "3", ";">>}

\* var a = 1; k times print 1; then the failing statement f; then a = 2; print a;
FailFast(k, f) == Text(<<"var", "a", "=", "1", ";">> \o RepeatSeq(<<"print", "1", ";">>, k) \o f \o <<"a", "=", "2", ";", "print", "a", ";">>)

\* texts with parse errors, with lexical errors, and with neither
OtherPrograms == {
    <<"print", ";">>,
    <<"print", "1", ";", "1", "+", ";">>,
    <<"1", "+", ";", "print", "y", ";">>,
    <<"1", "=", "2", ";", "print", "1", ";">>,
    <<"#">>,
    <<"print", "1", ";", "#">>,
    <<"\"", "s">>,
    <<"print", EAcute, ";">>,
    <<>>,
    <<"print", "1", ";">>,
    <<"if", "(", "true", ")", "print", "1", ";", "else", "print", "2", ";">>,
    <<"if", "(", "nil", ")", "print", "1", ";", "else", "print", "2", ";">>,
    <<"if", "(", "false", ")", "print", "1", ";", "print", "2", ";">>}

RunSources ==
    {OuterAssign(d, v) : d \in 1..MaxDepth, v \in LiteralWords}
    \union {Shadow(v1, v2) : v1 \in LiteralWords, v2 \in LiteralWords}
    \union {ForLoop(n) : n \in 0..MaxLoop}
    \union {ErrorInBlock(d) : d \in 0..MaxDepth}
    \union {FailFast(k, f) : k \in 0..MaxLead, f \in FailingStmts}
    \union {Text(w) : w \in OtherPrograms}

\* values of the variables a specification does not use
ParseIdle == parser = <<>> /\ statements = <<>> /\ parse_pc = "idle"

RunIdle == source = <<>> /\ environment = <<>> /\ stack = <<>> /\ pending = <<>> /\ output = <<>> /\ stderr = <<>> /\ run_pc = "idle" /\ run_ret = <<>> /\ exit_code = -1

ScanIdle == scanner = <<>> /\ scan_pc = "idle" /\ scan_ret = <<>>

EvalIdle == eval_ret = <<>>

ScopeIdle == parent = <<>> /\ child = <<>> /\ reference = <<>> /\ scope_pc = "idle" /\ scope_ops = 0 /\ scope_ret = <<>>

RunInit ==
    /\ source \in RunSources
    /\ environment = EnvironmentNew(None)
    /\ stack = <<>>
    /\ pending = None
    /\ output = <<>>
    /\ stderr = <<>>
    /\ run_pc = "scan"
    /\ run_ret = None
    /\ exit_code = -1
    /\ ScanIdle
    /\ ParseIdle
    /\ EvalIdle
    /\ ScopeIdle

RunNext ==
    \/ run_scan
    \/ run_parse
    \/ visit_expression_stmt
    \/ visit_print_stmt
    \/ visit_var_stmt
    \/ visit_block_stmt
    \/ execute_block_return
    \/ propagate
    \/ visit_while_stmt
    \/ while_turn
    \/ visit_if_stmt
    \/ interpret_err
    \/ interpret_ok
    \/ run_file_exit

SpecRun == RunInit /\ [][RunNext]_vars

(***************************************************************************)
(* Properties of the run (SpecRun).                                        *)
(***************************************************************************)
IsPrefix(s, t) == Len(s) <= Len(t) /\ s = SubSeq(t, 1, Len(s))

Exited == run_pc = "exited"

\* C1: whenever visit_block_stmt returns, with Ok or with a propagating
\* RuntimeError, the current environment is again the frame that was
\* current when the block was entered (the one execute_block saved).
C1_BlockRestoresEnvironment ==
    [][(run_pc = "interpret" /\ stack # <<>> /\ Top.kind = "execute_block" /\ stack' = Pop)
        => environment' = Top.new_env[1]]_vars

\* C2: var a; { a = v; } print a;  prints v, for every value v and every
\* nesting depth of the block.
C2_OuterAssignPersists ==
    \A d \in 1..MaxDepth, v \in LiteralWords :
        (source = OuterAssign(d, v) /\ Exited) => (output = <<Printed(v)>> /\ exit_code = 0)

Counting(n) == [i \in 1..n |-> DigitChar(i - 1)]

\* C6: for (var i = 0; i < n; i = i + 1) print i;  prints 0, 1, ..., n-1
\* in this order and nothing else: what is printed is always a prefix of
\* that list, and the whole list once the run has ended.
C6_ForLoopCounts ==
    \A n \in 0..MaxLoop :
        source = ForLoop(n) => (IsPrefix(output, Counting(n)) /\ (Exited => output = Counting(n)))

\* C8: a run whose parse reported a diagnostic ends with Err(ParseError) and
\* exit code 65, never 0; a run that ends with a RuntimeError exits with 70.
C8_ParseErrorExits65 ==
    Exited =>
        /\ (parse_pc = "returned" /\ parser.errs # <<>>) => (run_ret = <<"Err", "ParseError">> /\ exit_code = 65)
        /\ (run_ret[1] = "Err" /\ run_ret[2] = "RuntimeError" /\ parser.errs = <<>>) => exit_code = 70

RuntimeFailed == run_pc \in {"returned", "exited"} /\ run_ret[1] = "Err" /\ run_ret[2] = "RuntimeError"

\* the value a name reads as in the current environment
Reads(lexeme) == get(environment, Token("Identifier", lexeme, LitNil, 1))

\* C9: the run stops at the first statement that yields a RuntimeError: the
\* statements before it have run, the error is reported exactly once, and no
\* later statement prints or changes a binding.
C9_FailFast ==
    /\ RuntimeFailed => (stack = <<>> /\ Len(stderr) = Len(parser.errs) + 1 /\ stderr[Len(stderr)] = error_token(run_ret[3].token, run_ret[3].message))
    /\ \A k \in 0..MaxLead, f \in FailingStmts :
        source = FailFast(k, f) =>
            /\ IsPrefix(output, RepeatSeq(<<"1">>, k))
            /\ run_pc \in {"returned", "exited"} => (RuntimeFailed /\ output = RepeatSeq(<<"1">>, k) /\ Reads("a") = <<"Ok", Some(ValNumber(1, 0))>>)
            /\ Exited => exit_code = 70

C9_Witness ==
    /\ Exited
    /\ source = FailFast(MaxLead, <<"y", "=", "1", ";">>)
    /\ output = RepeatSeq(<<"1">>, MaxLead)
    /\ Len(stderr) = 1

\* C10: var x = v1; { var x = v2; print x; } print x;  prints v2 and then
\* v1: reads inside the block see the inner binding, and after the block the
\* outer binding has the value it had before.
C10_Shadowing ==
    \A v1 \in LiteralWords, v2 \in LiteralWords :
        source = Shadow(v1, v2) =>
            /\ IsPrefix(output, <<Printed(v2), Printed(v1)>>)
            /\ Exited => (output = <<Printed(v2), Printed(v1)>> /\ exit_code = 0 /\ environment.enclosing = None)

C10_Witness ==
    /\ Exited
    /\ source = Shadow("5", "nil")
    /\ output = <<"nil", "5">>


(***************************************************************************)
(* Scanner::scan_tokens as a state machine, one turn of its loop per step. *)
(***************************************************************************)
SeqsUpTo(S, n) == UNION {[1..k -> S] : k \in 0..n}

\* the characters the enumerated source texts are made of
ScanAlphabet == {"/", "*", "\n", "a", "1", ".", "\"", "=", "#", EAcute}

\* '/*' body '*/' tail
CommentSources == {<<"/", "*">> \o body \o <<"*", "/">> \o tail : body \in SeqsUpTo({"a", "*", "/", "\n"}, MaxCommentLen), tail \in {<<>>, <<"1">>}}

ScanSources == SeqsUpTo(ScanAlphabet, MaxSourceLen) \union CommentSources

ScanInit ==
    /\ scanner \in {ScannerNew(src) : src \in ScanSources}
    /\ scan_pc = "loop"
    /\ scan_ret = <<>>
    /\ ParseIdle
    /\ RunIdle
    /\ EvalIdle
    /\ ScopeIdle

\* scanner.rs:53-56
scan_tokens_loop ==
    /\ scan_pc = "loop"
    /\ ~is_at_end(scanner)
    /\ scanner' = scan_loop_body(scanner)
    /\ scan_pc' = IF scanner'.panicked THEN "panicked" ELSE "loop"
    /\ UNCHANGED <<scope_vars, eval_ret, scan_ret, parse_vars, run_vars>>

\* scanner.rs:57-61
scan_tokens_return ==
    /\ scan_pc = "loop"
    /\ is_at_end(scanner)
    /\ scanner' = push_eof(scanner)
    /\ scan_ret' = scan_result(scanner')
    /\ scan_pc' = "returned"
    /\ UNCHANGED <<scope_vars, eval_ret, parse_vars, run_vars>>

ScanNext == scan_tokens_loop \/ scan_tokens_return

SpecScan == ScanInit /\ [][ScanNext]_vars

(***************************************************************************)
(* Properties of the scan (SpecScan).                                      *)
(***************************************************************************)
\* the tokens a Result of scan_tokens hands to the caller, as an Option
ReturnedTokens(ret) == IF ret[1] = "Ok" THEN Some(ret[2]) ELSE None

\* C3: scan_tokens hands the caller the tokens it produced, ending in the
\* end-of-input token, also when it reported lexical errors.
C3_ScanReturnsTokens ==
    scan_pc = "returned" =>
        /\ ReturnedTokens(scan_ret) = Some(scanner.tokens)
        /\ scanner.tokens[Len(scanner.tokens)].type_ = "Eof"

\* C4: scan_tokens never panics, whatever the text, multi-byte characters
\* included.
C4_ScanNeverPanics == scan_pc # "panicked"

OpensComment(src) == Len(src) >= 2 /\ src[1] = "/" /\ src[2] = "*"

Terminators(src) == {k \in 3..(Len(src) - 1) : src[k] = "*" /\ src[k + 1] = "/"}

\* the place of the '*' of the first terminator after the opening
FirstTerminator(src) == CHOOSE k \in Terminators(src) : \A j \in Terminators(src) : k <= j

\* C5: the scan of a text that opens with a block comment consumes, in its
\* first scan_token, the text up to and including the first terminator and
\* nothing else, adds no token, and counts every newline of the comment.
C5_BlockCommentConsumed ==
    (scan_pc \in {"loop", "panicked"} /\ scanner.start = 0 /\ scanner.current > 0
        /\ OpensComment(scanner.source) /\ Terminators(scanner.source) # {}) =>
        LET src == scanner.source
            k == FirstTerminator(src)
        IN  /\ ~scanner.panicked
            /\ scanner.current = ByteOffset(src, k + 1)
            /\ scanner.tokens = <<>>
            /\ scanner.line = 1 + Cardinality({i \in 3..(k - 1) : src[i] = "\n"})

\* the characters that are no part of any token
Unexpected == {"#", EAcute}

\* a text with no string and no comment in it: every unexpected character of
\* it is met by scan_token
Plain(src) == \A i \in 1..Len(src) : src[i] \notin {"\"", "/"}

\* the text with a space in the place of each unexpected character
Blanked(src) == [i \in 1..Len(src) |-> IF src[i] \in Unexpected THEN " " ELSE src[i]]

\* the last token is the only Eof and carries the final line number
EndsWithEof(s) ==
    /\ s.tokens # <<>>
    /\ {i \in 1..Len(s.tokens) : s.tokens[i].type_ = "Eof"} = {Len(s.tokens)}
    /\ s.tokens[Len(s.tokens)].line = 1 + Cardinality({i \in 1..Len(s.source) : s.source[i] = "\n"})

\* C23: lexical errors are accumulated: an unexpected character records an
\* error and the scan goes on with the next character, so that the scan of a
\* text without strings and comments never stops early, reports one error
\* for each unexpected character, produces the tokens of the text around
\* them in source order, and ends with exactly one end-of-input token, which
\* carries the final line number.
C23_ErrorsAccumulated ==
    Plain(scanner.source) =>
        /\ scan_pc # "panicked"
        /\ scan_pc = "returned" =>
               /\ Len(scanner.errs) = Cardinality({i \in 1..Len(scanner.source) : scanner.source[i] \in Unexpected})
               /\ \A i \in 1..Len(scanner.errs) : scanner.errs[i].message = "Unexpected character"
               /\ scanner.tokens = scan_all(ScannerNew(Blanked(scanner.source))).tokens
               /\ EndsWithEof(scanner)

(***************************************************************************)
(* The parser as a state machine: one action per turn of the loop of       *)
(* Parser::parse, run on two statements of at most MaxMalformedLen tokens  *)
(* and a ';' each, followed by  print 1;  on 'for' statements; and on      *)
(* statements cut short by the end of the input.                           *)
(***************************************************************************)
\* the token the scanner makes of a word
TokenOf(w) == scan_all(ScannerNew(Spell(w))).tokens[1]

Eof == Token("Eof", "", LitNil, 1)

Tokens(words) == [i \in 1..Len(words) |-> TokenOf(words[i])] \o <<Eof>>

RecoveryAlphabet == {"1", ")", "print", "{", "="}

ShortStatements == {w \o <<";">> : w \in SeqsUpTo(RecoveryAlphabet, MaxMalformedLen)}

ValidPrint == <<"print", "1", ";">>

RecoveryInputs == {Tokens(m1 \o m2 \o ValidPrint) : m1 \in ShortStatements, m2 \in ShortStatements}

\* the clauses of a 'for': the initializer with its ';' (a lone ';' when
\* omitted), the condition and the increment (empty when omitted), the body
ForInitializers == {<<";">>, <<"var", "i", "=", "0", ";">>, <<"i", "=", "0", ";">>}

ForConditions == {<<>>, <<"i", "<", "1">>, <<"true">>}

ForIncrements == {<<>>, <<"i", "=", "i", "+", "1">>}

ForBodies == {<<"print", "i", ";">>, <<"{", "}">>, <<"for", "(", ";", ";", ")", "print", "1", ";">>}

ForClauses == ForInitializers \X ForConditions \X ForIncrements \X ForBodies

ForWords(f) == <<"for", "(">> \o f[1] \o f[2] \o <<";">> \o f[3] \o <<")">> \o f[4]

ForInputs == {Tokens(ForWords(f)) : f \in ForClauses}

\* statements cut short by the end of the input, alone or after  print 1;
TruncatedInputs ==
    {Tokens(m) : m \in SeqsUpTo(RecoveryAlphabet, MaxMalformedLen) \ {<<>>}}
    \union {Tokens(ValidPrint \o m) : m \in SeqsUpTo(RecoveryAlphabet, MaxMalformedLen) \ {<<>>}}

\* assignments to something that is not a variable: the target, the value,
\* the statement around them (an expression statement, print, var x =) and
\* what follows (nothing or  print 1;)
InvalidTargets == {<<"1">>, <<"nil">>, <<"(", "a", ")">>, <<"a", "+", "b">>}

TargetValues == {<<"2">>, <<"b", "=", "3">>, <<"a", "+", "1">>}

TargetPrefixes == {<<>>, <<"print">>, <<"var", "x", "=">>}

TargetCases == InvalidTargets \X TargetValues \X TargetPrefixes \X {<<>>, ValidPrint}

TargetWords(c) == c[3] \o c[1] \o <<"=">> \o c[2] \o <<";">> \o c[4]

InvalidTargetInputs == {Tokens(TargetWords(c)) : c \in TargetCases}

\* any tokens: every sequence of at most MaxTokens of these words, and Eof
ParseAlphabet == {"(", "}", ";", "-", "a", "var", "for", "if"}

ArbitraryInputs == {Tokens(m) : m \in SeqsUpTo(ParseAlphabet, MaxTokens)}

ParseInputs == RecoveryInputs \union ForInputs \union TruncatedInputs \union InvalidTargetInputs \union ArbitraryInputs

ParseInit ==
    /\ parser \in {ParserNew(tokens) : tokens \in ParseInputs}
    /\ statements = <<>>
    /\ parse_pc = "loop"
    /\ ScanIdle
    /\ RunIdle
    /\ EvalIdle
    /\ ScopeIdle

\* parser.rs:24-28, one turn
parse_turn ==
    /\ parse_pc = "loop"
    /\ ~parser_is_at_end(parser)
    /\ \E d \in {declaration_wrapper(parser)} :
           /\ parser' = d.p
           /\ statements' = IF d.val # None THEN Append(statements, d.val[1]) ELSE statements
           /\ parse_pc' = IF d.p.panicked THEN "panicked" ELSE "loop"
    /\ UNCHANGED <<scope_vars, eval_ret, scan_vars, run_vars>>

\* parser.rs:29
parse_return ==
    /\ parse_pc = "loop"
    /\ parser_is_at_end(parser)
    /\ parse_pc' = IF is_at_end_panics(parser) THEN "panicked" ELSE "returned"
    /\ UNCHANGED <<scope_vars, eval_ret, parser, statements, scan_vars, run_vars>>

ParseNext == parse_turn \/ parse_return

SpecParse == ParseInit /\ [][ParseNext]_vars

(***************************************************************************)
(* Properties of the parse (SpecParse).                                    *)
(***************************************************************************)
Semicolons(tokens) == {i \in 1..Len(tokens) : tokens[i].type_ = "Semicolon"}

\* the place of the n-th ';' of the tokens
NthSemicolon(tokens, n) ==
    CHOOSE i \in Semicolons(tokens) : Cardinality({j \in Semicolons(tokens) : j < i}) = n - 1

\* declaration() on the tokens m alone
Alone(m) == declaration(ParserNew(m \o <<Eof>>))

\* m ends in its only ';' and is not a statement
Malformed(m) ==
    /\ Semicolons(m) = {Len(m)}
    /\ ~(Alone(m).ok /\ Alone(m).p.errs = <<>> /\ Alone(m).p.current = Len(m))

\* m ends in its only ';'; declaration() fails on it at one of its own
\* tokens, with that failure as its only diagnostic; and no token after the
\* failing one is a keyword that synchronize stops before
FailsOnce(m) ==
    /\ Semicolons(m) = {Len(m)}
    /\ ~Alone(m).ok
    /\ Len(Alone(m).p.errs) = 1
    /\ Alone(m).p.current < Len(m)
    /\ \A i \in (Alone(m).p.current + 2)..Len(m) : m[i].type_ \notin SyncKeywords

First(tokens) == SubSeq(tokens, 1, NthSemicolon(tokens, 1))

Second(tokens) == SubSeq(tokens, NthSemicolon(tokens, 1) + 1, NthSemicolon(tokens, 2))

Rest(tokens) == SubSeq(tokens, NthSemicolon(tokens, 2) + 1, Len(tokens))

\* the statement  print 1;
PrintOne == StmtPrint(ExprLiteral(LitInt(1)))

Parsed == parse_pc = "returned" /\ Cardinality(Semicolons(parser.tokens)) = 3 /\ Rest(parser.tokens) = Tokens(ValidPrint)

Recovered == Len(parser.errs) = 2 /\ \E i \in 1..Len(statements) : statements[i] = PrintOne

\* C7 as stated: after two malformed statements, each ending in ';', and a
\* valid print statement, parse has reported exactly two diagnostics and
\* the statements it returns contain the print statement.
C7_TwoDiagnosticsAsStated ==
    (Parsed /\ Malformed(First(parser.tokens)) /\ Malformed(Second(parser.tokens))) => Recovered

\* C7: the same, for malformed statements on which declaration() fails once,
\* at one of their own tokens, with no statement keyword after that token.
C7_TwoDiagnostics ==
    (Parsed /\ FailsOnce(First(parser.tokens)) /\ FailsOnce(Second(parser.tokens))) => Recovered

C7_Witness ==
    /\ Parsed
    /\ parser.tokens = Tokens(<<"1", "1", ";", ")", ";">> \o ValidPrint)
    /\ FailsOnce(First(parser.tokens))
    /\ FailsOnce(Second(parser.tokens))
    /\ Len(parser.errs) = 2
    /\ statements = <<PrintOne>>

(***************************************************************************)
(* Properties of the parse (SpecParse): the rewriting of 'for'.            *)
(***************************************************************************)
\* the tokens of some words, without Eof
Toks(words) == [k \in 1..Len(words) |-> TokenOf(words[k])]

\* the tokens of each 'for' statement
ForTokens == [f \in ForClauses |-> Tokens(ForWords(f))]

\* parse has returned for a 'for' statement
ForParsed == parse_pc = "returned" /\ parser.tokens[1].type_ = "For"

\* parse has returned for the 'for' statement of clauses f, without diagnostic
Desugared(f) == ForParsed /\ parser.tokens = ForTokens[f] /\ parser.errs = <<>>

\* the clauses parsed by themselves
InitializerOf(f) == Alone(Toks(f[1])).val

ConditionOf(f) == IF f[2] = <<>> THEN ExprLiteral(LitBool(TRUE)) ELSE expression(ParserNew(Tokens(f[2]))).val

IncrementOf(f) == expression(ParserNew(Tokens(f[3]))).val

BodyOf(f) == Alone(Toks(f[4])).val

\* the While of the rewriting: the condition, true when omitted, and the body,
\* followed by the increment in a Block exactly when there is an increment
WhileOf(f) ==
    StmtWhile(ConditionOf(f), IF f[3] # <<>> THEN StmtBlock(<<BodyOf(f), StmtExpression(IncrementOf(f))>>) ELSE BodyOf(f))

\* C19 as stated: for_statement always returns a Block holding the
\* initializer statement, if any, followed by the While statement.
C19_AlwaysBlockAsStated ==
    ForParsed => \A f \in ForClauses :
        Desugared(f) => statements = <<StmtBlock((IF f[1] = <<";">> THEN <<>> ELSE <<InitializerOf(f)>>) \o <<WhileOf(f)>>)>>

\* C19: a 'for' has no node of its own: for_statement returns
\* Block{initializer, While} when there is an initializer clause and the
\* While statement itself when there is none; the While condition is the
\* literal true when the condition clause is omitted; the While body is
\* Block{body, Expression(increment)} exactly when there is an increment
\* clause and the body itself otherwise.
C19_ForDesugaring ==
    ForParsed => \A f \in ForClauses :
        Desugared(f) => statements = <<IF f[1] = <<";">> THEN WhileOf(f) ELSE StmtBlock(<<InitializerOf(f), WhileOf(f)>>)>>

\* for (;;) print i;  was parsed to the bare While(true, print i)
C19_Witness ==
    /\ Desugared(<<<<";">>, <<>>, <<>>, <<"print", "i", ";">>>>)
    /\ statements = <<StmtWhile(ExprLiteral(LitBool(TRUE)), StmtPrint(ExprVariable(TokenOf("i"))))>>

(***************************************************************************)
(* Properties of the parse (SpecParse): panic-mode recovery.               *)
(***************************************************************************)
\* the turn of the loop of parse that starts here is one whose declaration
\* fails
Failing == parse_pc = "loop" /\ ~parser_is_at_end(parser) /\ ~declaration(parser).ok

\* the number of tokens consumed when the declaration failed
FailedAt == declaration(parser).p.current

\* the failure came at the end of the input: only Eof is left
FailedAtEnd == parser.tokens[FailedAt + 1].type_ = "Eof"

\* a place where synchronize may stop: k tokens consumed and only Eof left,
\* or the k-th token a ';', or the next token a statement keyword
StopsAt(tokens, k) ==
    \/ tokens[k + 1].type_ = "Eof"
    \/ tokens[k].type_ = "Semicolon"
    \/ tokens[k + 1].type_ \in SyncKeywords

\* the failed declaration is discarded, synchronize has stopped at the first
\* place after the token it consumed where it may stop, and the loop of
\* parse goes on from there
Resynchronized ==
    /\ statements' = statements
    /\ ~parser'.panicked
    /\ parser'.tokens = parser.tokens
    /\ Len(parser'.errs) > Len(parser.errs)
    /\ StopsAt(parser.tokens, parser'.current)
    /\ \A k \in (FailedAt + 1)..(parser'.current - 1) : ~StopsAt(parser.tokens, k)
    /\ parse_pc' = "loop"

\* C20 as stated: a failing declaration is discarded, synchronize then
\* advances at least one token and stops only at the end of the input, after
\* a ';' or before a statement keyword, and parsing resumes there.
C20_RecoveryAsStated ==
    [][Failing => (Resynchronized /\ parser'.current >= FailedAt + 1)]_vars

\* C20: the same, with synchronize consuming a token unless the failure came
\* at the end of the input, where it consumes none.
C20_Recovery ==
    [][Failing => (Resynchronized /\ IF FailedAtEnd THEN parser'.current = FailedAt ELSE parser'.current >= FailedAt + 1)]_vars

\* print 1  without its ';': the failure came at Eof, nothing was consumed by
\* synchronize, the statement was discarded and parse returned
C20_Witness ==
    /\ parser.tokens = Tokens(<<"print", "1">>)
    /\ parse_pc = "returned"
    /\ parser.current = 2
    /\ Len(parser.errs) = 1
    /\ statements = <<>>

(***************************************************************************)
(* Properties of the parse (SpecParse): invalid assignment targets.        *)
(***************************************************************************)
\* the tokens of each assignment to an invalid target
TargetTokens == [c \in TargetCases |-> Tokens(TargetWords(c))]

\* parse has returned for an assignment to an invalid target
TargetParsed == parse_pc = "returned" /\ parser.tokens \in InvalidTargetInputs

\* the statement of case c with  = value  left out, parsed by itself
WithoutAssignment(c) == Alone(Toks(c[3] \o c[1] \o <<";">>)).val

\* C21: an invalid assignment target is a non-fatal parse error: when the
\* left-hand side of = is not a Variable node, assignment reports exactly one
\* Invalid assignment target. diagnostic at the = token, consumes the
\* right-hand side and returns the left-hand expression unchanged with Ok;
\* synchronize is not triggered, so the enclosing statement is parsed to its
\* ';' and kept, as is the statement that follows it.
C21_InvalidTargetNotFatal ==
    TargetParsed => \A c \in TargetCases :
        parser.tokens = TargetTokens[c] =>
            /\ parser.errs = <<report(1, " at '='", "Invalid assignment target.")>>
            /\ statements = <<WithoutAssignment(c)>> \o (IF c[4] = <<>> THEN <<>> ELSE <<PrintOne>>)
            /\ parser.current = Len(parser.tokens) - 1

\* (a) = 2; print 1;  gave one diagnostic and both statements, the first one
\* the expression statement (a)
C21_Witness ==
    /\ parse_pc = "returned"
    /\ parser.tokens = Tokens(<<"(", "a", ")", "=", "2", ";">> \o ValidPrint)
    /\ Len(parser.errs) = 1
    /\ statements = <<StmtExpression(ExprGrouping(ExprVariable(TokenOf("a")))), PrintOne>>

(***************************************************************************)
(* Properties of the parse (SpecParse): termination without panic.         *)
(***************************************************************************)
\* the number of tokens before Eof: `current` when the parser is at the end
EofIndex == Len(parser.tokens) - 1

\* no unwrap() or expect() of the parser has failed: peek() has always found
\* a token and previous() was never called with `current` 0
NoParserPanic == parse_pc # "panicked" /\ ~parser.panicked /\ parser.current \in 0..EofIndex

\* a turn of the loop of parse: it consumes at least one token and leaves
\* the parser at or before Eof
TurnAdvances == (parse_pc = "loop" /\ ~parser_is_at_end(parser)) => (parser'.current > parser.current /\ parse_pc' = "loop")

\* at Eof the loop is left and parse returns
ReturnsAtEof == (parse_pc = "loop" /\ parser_is_at_end(parser)) => (parse_pc' = "returned" /\ parser'.current = EofIndex)

\* C24: Parser::parse terminates and never panics on tokens that end in
\* their only Eof: every turn of its loop, a successful declaration or a
\* failed one followed by synchronize, strictly increases `current`, which
\* never passes the index of Eof (peek() always finds a token), previous() is
\* never called while `current` is 0, and at Eof parse returns.
C24_ParseTerminates == []NoParserPanic /\ [][TurnAdvances /\ ReturnsAtEof]_vars

\* ( = a  was parsed to the end: the failed declaration and synchronize left
\* `current` at Eof, and parse returned without a statement
C24_Witness ==
    /\ parse_pc = "returned"
    /\ parser.tokens = Tokens(<<"(", "-", "a">>)
    /\ parser.current = EofIndex
    /\ parser.errs # <<>>
    /\ statements = <<>>

(***************************************************************************)
(* The evaluation of one expression statement: the text is scanned and     *)
(* parsed by run, and Interpreter::evaluate is applied to the statement's  *)
(* expression in an environment of at most MaxFrames frames.               *)
(***************************************************************************)
\* the names a frame may define
EnvNames == {"a", "b"}

\* a frame defines a name with a value, defines it uninitialized, or not at all
Defined == {"absent", "uninitialized", "initialized"}

\* the frame `env` after `var a ..; var b ..;` as the choice f says; an
\* initialized name holds the number of frames below
Declared(env, f, depth) ==
    LET d1 == IF f["a"] = "absent" THEN env
              ELSE define(env, "a", IF f["a"] = "initialized" THEN Some(ValNumber(depth, 0)) ELSE None)
    IN  IF f["b"] = "absent" THEN d1
        ELSE define(d1, "b", IF f["b"] = "initialized" THEN Some(ValNumber(depth, 0)) ELSE None)

RECURSIVE Chains(_)
\* the environments of n frames: a block entered in each environment of n - 1
Chains(n) ==
    IF n = 1 THEN {Declared(EnvironmentNew(None), f, 1) : f \in [EnvNames -> Defined]}
    ELSE {Declared(EnvironmentNew(Some(e)), f, n) : e \in Chains(n - 1), f \in [EnvNames -> Defined]}

EvalEnvs == UNION {Chains(n) : n \in 1..MaxFrames}

\* reads and assignments of a name
VariableTexts == UNION {{<<n, ";">>, <<n, "=", "7", ";">>, <<n, "=", "nil", ";">>} : n \in EnvNames}

\* the operand literals
Operands == LiteralWords \union {"\"\"", "\"5\""}

BinaryOperators == {"-", "*", "/", ">", ">=", "<", "<=", "+", "==", "!="}

BinaryTexts == {<<l, op, r, ";">> : l \in Operands, op \in BinaryOperators, r \in Operands}

UnaryTexts == {<<op, r, ";">> : op \in {"!", "-"}, r \in Operands} \union {<<"!", "!", r, ";">> : r \in Operands}

\* right operands of a logical operator: a literal, an assignment (a side
\* effect), a read of the undefined y and a failing negation (errors)
RightOperands == {<<"5">>, <<"nil">>, <<"(", "a", "=", "7", ")">>, <<"y">>, <<"-", "true">>}

LogicalTexts == {<<l, op>> \o r \o <<";">> : l \in Operands, op \in {"and", "or"}, r \in RightOperands}

\* a = b = e;  with e a literal or an expression with a side effect
ChainedValues == {<<w>> : w \in Operands} \union {<<"c", "=", "c", "+", "1">>}

\* the two targets: both defined, the outer one undefined, the inner one
\* undefined
ChainedTargets == {<<"a", "b">>, <<"y", "b">>, <<"a", "y">>}

ChainedTexts == {<<t[1], "=", t[2], "=">> \o e \o <<";">> : t \in ChainedTargets, e \in ChainedValues}

\* var a = 1; var b; var c = 1;
OperandEnv == define(define(define(EnvironmentNew(None), "a", Some(ValNumber(1, 0))), "b", None), "c", Some(ValNumber(1, 0)))

\* the pairs of operators of  1 op1 (2 op2 3);  1 / (2 / 3) is left out, its
\* divisor 2 / 3 having no exact decimal
RightGrouped == (BinaryOperators \X BinaryOperators) \ {<<"/", "/">>}

\* 1 op1 2 op2 3;  bare, with the right pair in parentheses and with the left
\* pair in parentheses, and a unary operator before  1 op 2;
PrecedenceTexts ==
    {<<"1", op1, "2", op2, "3", ";">> : op1 \in BinaryOperators, op2 \in BinaryOperators}
    \union {<<"1", o[1], "(", "2", o[2], "3", ")", ";">> : o \in RightGrouped}
    \union {<<"(", "1", op1, "2", ")", op2, "3", ";">> : op1 \in BinaryOperators, op2 \in BinaryOperators}
    \union {<<u, "1", op, "2", ";">> : u \in {"-", "!"}, op \in BinaryOperators}

OperatorTexts == BinaryTexts \union UnaryTexts \union LogicalTexts \union ChainedTexts \union PrecedenceTexts

EvalInputs ==
    {<<e, Text(w)>> : e \in EvalEnvs, w \in VariableTexts}
    \union {<<OperandEnv, Text(w)>> : w \in OperatorTexts}

EvalInit ==
    /\ \E input \in EvalInputs : environment = input[1] /\ source = input[2]
    /\ stack = <<>>
    /\ pending = None
    /\ output = <<>>
    /\ stderr = <<>>
    /\ run_pc = "scan"
    /\ run_ret = None
    /\ exit_code = -1
    /\ eval_ret = None
    /\ ScanIdle
    /\ ParseIdle
    /\ ScopeIdle

\* Interpreter::visit_expression_stmt (interpreter.rs:152-155), the value of
\* `self.evaluate(expression)?` kept in eval_ret
evaluate_expression ==
    /\ HasStmt
    /\ Current.kind = "Expression"
    /\ eval_ret = None
    /\ \E r \in {evaluate(environment, Current.expression)} :
           /\ environment' = r.env
           /\ pending' = r.err
           /\ eval_ret' = Some(r)
    /\ stack' = Advanced
    /\ UNCHANGED <<scope_vars, scan_vars, parse_vars, source, output, stderr, run_pc, run_ret, exit_code>>

EvalNext == run_scan \/ run_parse \/ evaluate_expression

SpecEval == EvalInit /\ [][EvalNext]_vars

(***************************************************************************)
(* Properties of SpecEval: variables.                                      *)
(***************************************************************************)
RECURSIVE Frames(_)
\* the frames of an environment, innermost first
Frames(env) == <<env>> \o (IF env.enclosing = None THEN <<>> ELSE Frames(env.enclosing[1]))

\* the names a frame defines, initialized or not
Names(frame) == DOMAIN frame.values

\* the index of the nearest frame that defines n, 0 when none does
Nearest(env, n) ==
    LET defining == {i \in 1..Len(Frames(env)) : n \in Names(Frames(env)[i])}
    IN  IF defining = {} THEN 0 ELSE CHOOSE i \in defining : \A j \in defining : i <= j

\* the values the assignment texts assign
Assigned == [w \in {"7", "nil"} |-> IF w = "7" THEN ValNumber(7, 0) ELSE ValNil]

\* the step in which the statement  n = w;  is evaluated
Assigns(n, w) == source = Text(<<n, "=", w, ";">>) /\ eval_ret = None /\ eval_ret' # None

\* `n = w;` failed with Undefined variable and changed nothing
AssignRefused(n) ==
    /\ ~eval_ret'[1].ok
    /\ eval_ret'[1].err # None
    /\ eval_ret'[1].err[1].message = "Undefined variable '" \o n \o "'."
    /\ environment' = environment

\* `n = w;` changed the binding of n in frame i and no other binding
AssignWrote(n, w, i) ==
    LET before == Frames(environment)
        after == Frames(environment')
    IN  /\ eval_ret'[1].ok
        /\ Len(after) = Len(before)
        /\ \A k \in 1..Len(before) : Names(after[k]) = Names(before[k])
        /\ \A k \in 1..Len(before) : k # i => after[k].values = before[k].values
        /\ \A m \in Names(before[i]) : after[i].values[m] = IF m = n THEN Some(Assigned[w]) ELSE before[i].values[m]

\* C11: Environment.assign never creates a binding: when no frame defines the
\* name the assignment fails with Undefined variable '<name>'. and the whole
\* environment (every frame's bindings and parent_modified) is unchanged; when
\* some frame defines it, only the nearest defining frame's binding of that
\* name changes and every frame defines the same names before and after.
C11_AssignNeverCreates ==
    [][\A n \in EnvNames, w \in {"7", "nil"} :
          Assigns(n, w) =>
              IF Nearest(environment, n) = 0 THEN AssignRefused(n)
              ELSE AssignWrote(n, w, Nearest(environment, n))]_vars

\* a = 7;  was refused in an environment defining only b, in both of its two
\* frames, and nothing was defined
C11_Witness ==
    /\ source = Text(<<"a", "=", "7", ";">>)
    /\ eval_ret # None
    /\ ~eval_ret[1].ok
    /\ Len(Frames(environment)) = 2
    /\ \A k \in 1..2 : Names(Frames(environment)[k]) = {"b"}

\* the statement  n;  has been evaluated
Read(n) == source = Text(<<n, ";">>) /\ eval_ret # None

\* the evaluation failed with this message
Raised(message) ==
    /\ ~eval_ret[1].ok
    /\ eval_ret[1].err # None
    /\ eval_ret[1].err[1].message = message

\* the evaluation returned this value
Returned(value) == eval_ret[1].ok /\ eval_ret[1].val = value

\* C12: reading a variable searches the current frame and then each
\* enclosing frame outward: a name no frame defines raises Undefined variable
\* '<name>'., a name whose nearest binding is uninitialized raises Variable
\* not initialized. (even when an outer frame has a value for it), and
\* otherwise the nearest binding's value is returned.
C12_ReadNearest ==
    \A n \in EnvNames :
        Read(n) =>
            LET i == Nearest(environment, n)
            IN  IF i = 0 THEN Raised("Undefined variable '" \o n \o "'.")
                ELSE IF Frames(environment)[i].values[n] = None THEN Raised("Variable not initialized.")
                ELSE Returned(Frames(environment)[i].values[n][1])

\* a;  raised Variable not initialized. although the enclosing frame holds a
\* value for a
C12_Witness ==
    /\ Read("a")
    /\ Raised("Variable not initialized.")
    /\ Len(Frames(environment)) = 2
    /\ \A k \in 1..2 : "a" \in Names(Frames(environment)[k])
    /\ Frames(environment)[1].values["a"] = None
    /\ Frames(environment)[2].values["a"] = Some(ValNumber(1, 0))

(***************************************************************************)
(* Properties of SpecEval: operators.                                      *)
(***************************************************************************)
\* the value each operand literal denotes
Denotes(w) ==
    CASE w = "5" -> ValNumber(5, 0)
      [] w = "0" -> ValNumber(0, 0)
      [] w = "1.5" -> ValNumber(15, 1)
      [] w = "nil" -> ValNil
      [] w = "true" -> ValBool(TRUE)
      [] w = "false" -> ValBool(FALSE)
      [] w = "\"s\"" -> ValString("s")
      [] w = "\"\"" -> ValString("")
      [] w = "\"5\"" -> ValString("5")

\* the operand literals that are falsy: nil and false
Falsy == {"nil", "false"}

\* the text of each operator statement
TextOf == [w \in OperatorTexts |-> Text(w)]

\* the statement  words;  has been evaluated
Evaluated(words) == eval_ret # None /\ source = TextOf[words \o <<";">>]

\* what evaluating the right operand r by itself in OperandEnv gives
RightOutcome(r) ==
    CASE r = <<"5">> -> Returned(ValNumber(5, 0)) /\ environment = OperandEnv
      [] r = <<"nil">> -> Returned(ValNil) /\ environment = OperandEnv
      [] r = <<"(", "a", "=", "7", ")">> ->
             Returned(ValNumber(7, 0)) /\ environment = define(OperandEnv, "a", Some(ValNumber(7, 0)))
      [] r = <<"y">> -> Raised("Undefined variable 'y'.") /\ environment = OperandEnv
      [] r = <<"-", "true">> -> Raised("Operand(s) must be a number.") /\ environment = OperandEnv

\* the left operand decides the result of  l op ..
ShortCircuits(l, op) == (op = "and" /\ l \in Falsy) \/ (op = "or" /\ l \notin Falsy)

Tenths == [w \in {"5", "0", "1.5"} |-> CASE w = "5" -> 50 [] w = "0" -> 0 [] w = "1.5" -> 15]

NumberWords == DOMAIN Tenths

\* the binary operators on numbers only
NumericOperators == {"-", "*", "/", ">", ">=", "<", "<="}

\* the value of  l op r  for number literals l and r, r not 0 under /
NumericResult(l, op, r) ==
    CASE op = "-" -> eval_ret[1].val = ValNumber(Tenths[l] - Tenths[r], 1)
      [] op = "*" -> eval_ret[1].val = ValNumber(Tenths[l] * Tenths[r], 2)
      [] op = "/" -> NumMul(eval_ret[1].val, Denotes(r)) = Denotes(l) \/ <<l, r>> = <<"5", "1.5">>
      [] op = ">" -> eval_ret[1].val = ValBool(Tenths[l] > Tenths[r])
      [] op = ">=" -> eval_ret[1].val = ValBool(Tenths[l] >= Tenths[r])
      [] op = "<" -> eval_ret[1].val = ValBool(Tenths[l] < Tenths[r])
      [] op = "<=" -> eval_ret[1].val = ValBool(Tenths[l] <= Tenths[r])

\* C14: binary -, *, /, >, >=, <, <= succeed only when both operand values
\* are numbers and otherwise raise Operand(s) must be a number.; / with two
\* numbers and a zero divisor raises Divide by zero. and never yields a value.
C14_NumericOperators ==
    \A l \in Operands, op \in NumericOperators, r \in Operands :
        Evaluated(<<l, op, r>>) =>
            IF l \notin NumberWords \/ r \notin NumberWords THEN Raised("Operand(s) must be a number.")
            ELSE IF op = "/" /\ r = "0" THEN Raised("Divide by zero.") /\ eval_ret[1].val = None
            ELSE eval_ret[1].ok /\ NumericResult(l, op, r)

\* 0 / 0;  raised Divide by zero. and left the environment as it was
C14_Witness ==
    /\ Evaluated(<<"0", "/", "0">>)
    /\ Raised("Divide by zero.")
    /\ environment = OperandEnv

\* the string representation of the value each operand literal denotes
Shown(w) ==
    CASE w = "\"s\"" -> "s"
      [] w = "\"\"" -> ""
      [] w = "\"5\"" -> "5"
      [] OTHER -> w

\* C15: binary + on two evaluated operands never fails: two numbers give
\* their sum, anything else gives the string made of the left operand's
\* representation followed by the right operand's (nil, true and false
\* written as nil, true and false).
C15_PlusNeverFails ==
    \A l \in Operands, r \in Operands :
        Evaluated(<<l, "+", r>>) =>
            IF l \in NumberWords /\ r \in NumberWords THEN Returned(ValNumber(Tenths[l] + Tenths[r], 1))
            ELSE Returned(ValString(Shown(l) \o Shown(r)))

\* 1.5 + "s";  returned the string 1.5s
C15_Witness ==
    /\ Evaluated(<<"1.5", "+", "\"s\"">>)
    /\ Returned(ValString("1.5s"))

\* the kind of value each operand literal denotes
Kind(w) ==
    CASE w \in NumberWords -> "number"
      [] w \in {"\"s\"", "\"\"", "\"5\""} -> "string"
      [] w \in {"true", "false"} -> "boolean"
      [] w = "nil" -> "nil"

\* structural equality of the values two operand literals denote
SameValue(l, r) == Kind(l) = Kind(r) /\ Shown(l) = Shown(r)

C17_TruthinessAndUnary ==
    \A r \in Operands :
        /\ Evaluated(<<"!", "!", r>>) => Returned(ValBool(r \notin Falsy))
        /\ Evaluated(<<"!", r>>) => Returned(ValBool(r \in Falsy))
        /\ Evaluated(<<"-", r>>) =>
               IF r \in NumberWords THEN Returned(ValNumber(0 - Tenths[r], 1))
               ELSE Raised("Operand(s) must be a number.")

\* !"";  returned false: the empty string is truthy
C17_Witness ==
    /\ Evaluated(<<"!", "\"\"">>)
    /\ Returned(ValBool(FALSE))

\* the value of each right-hand side e of  a = b = e  in OperandEnv
ValueOf(e) == IF Len(e) = 1 THEN Denotes(e[1]) ELSE ValNumber(2, 0)

\* c after e has been evaluated once: c = c + 1 makes it 2
OnceEvaluated(e) == environment.values["c"] = Some(IF Len(e) = 1 THEN ValNumber(1, 0) ELSE ValNumber(2, 0))

\* the statement parsed as Assign(t1, Assign(t2, e))
AssignOfAssign(t1, t2) ==
    /\ Len(statements) = 1
    /\ statements[1].kind = "Expression"
    /\ statements[1].expression.kind = "Assign"
    /\ statements[1].expression.name.lexeme = t1
    /\ statements[1].expression.value.kind = "Assign"
    /\ statements[1].expression.value.name.lexeme = t2
    /\ statements[1].expression.value.value.kind \in {"Literal", "Assign"}

\* C18: assignment is right-associative and has the assigned value:
\* a = b = e parses as Assign(a, Assign(b, e)), e is evaluated once, b is
\* written before a (when a cannot be assigned b has been written, when b
\* cannot be assigned a has not), and afterwards a, b and the whole
\* expression have the value of e.
C18_ChainedAssignment ==
    \A e \in ChainedValues :
        /\ Evaluated(<<"a", "=", "b", "=">> \o e) =>
               /\ AssignOfAssign("a", "b")
               /\ Returned(ValueOf(e))
               /\ environment.values["a"] = Some(ValueOf(e))
               /\ environment.values["b"] = Some(ValueOf(e))
               /\ OnceEvaluated(e)
        /\ Evaluated(<<"y", "=", "b", "=">> \o e) =>
               /\ AssignOfAssign("y", "b")
               /\ Raised("Undefined variable 'y'.")
               /\ environment.values["a"] = OperandEnv.values["a"]
               /\ environment.values["b"] = Some(ValueOf(e))
               /\ OnceEvaluated(e)
        /\ Evaluated(<<"a", "=", "y", "=">> \o e) =>
               /\ AssignOfAssign("a", "y")
               /\ Raised("Undefined variable 'y'.")
               /\ environment.values["a"] = OperandEnv.values["a"]
               /\ environment.values["b"] = OperandEnv.values["b"]
               /\ OnceEvaluated(e)

\* a = b = c = c + 1;  returned 2 with a, b and c all 2
C18_Witness ==
    /\ Evaluated(<<"a", "=", "b", "=", "c", "=", "c", "+", "1">>)
    /\ Returned(ValNumber(2, 0))
    /\ \A n \in {"a", "b", "c"} : environment.values[n] = Some(ValNumber(2, 0))

(***************************************************************************)
(* Properties of SpecEval: precedence and associativity.                   *)
(***************************************************************************)
\* the level of each binary operator, the higher the tighter
Level(op) ==
    CASE op \in {"==", "!="} -> 1
      [] op \in {">", ">=", "<", "<="} -> 2
      [] op \in {"+", "-"} -> 3
      [] op \in {"*", "/"} -> 4

\* the Literal node of a number word and the Binary node of an operator word
Lit(w) == ExprLiteral(TokenOf(w).literal)

Bin(left, op, right) == ExprBinary(left, TokenOf(op), right)

\* the expression of the only statement
Tree == statements[1].expression

\* the operators whose value on integers is an integer
Arithmetic == {"+", "-", "*"}

Apply(op, x, y) == CASE op = "+" -> x + y [] op = "-" -> x - y [] op = "*" -> x * y

\* the value is the integer n, when both operators are arithmetic
Gives(op1, op2, n) == (op1 \in Arithmetic /\ op2 \in Arithmetic) => Returned(ValNumber(n, 0))

\* C22: binary operators are parsed with precedence equality < comparison <
\* term < factor < unary < primary and fold to the left within a level, and
\* a parenthesised group overrides precedence; the value is that of the tree
\* (1 + 2 * 3 is 7 and (1 + 2) * 3 is 9).
C22_Precedence ==
    eval_ret # None =>
        /\ \A op1 \in BinaryOperators, op2 \in BinaryOperators :
               /\ Evaluated(<<"1", op1, "2", op2, "3">>) =>
                      IF Level(op2) > Level(op1)
                      THEN Tree = Bin(Lit("1"), op1, Bin(Lit("2"), op2, Lit("3"))) /\ Gives(op1, op2, Apply(op1, 1, Apply(op2, 2, 3)))
                      ELSE Tree = Bin(Bin(Lit("1"), op1, Lit("2")), op2, Lit("3")) /\ Gives(op1, op2, Apply(op2, Apply(op1, 1, 2), 3))
               /\ (<<op1, op2>> \in RightGrouped /\ Evaluated(<<"1", op1, "(", "2", op2, "3", ")">>)) =>
                      /\ Tree = Bin(Lit("1"), op1, ExprGrouping(Bin(Lit("2"), op2, Lit("3"))))
                      /\ Gives(op1, op2, Apply(op1, 1, Apply(op2, 2, 3)))
               /\ Evaluated(<<"(", "1", op1, "2", ")", op2, "3">>) =>
                      /\ Tree = Bin(ExprGrouping(Bin(Lit("1"), op1, Lit("2"))), op2, Lit("3"))
                      /\ Gives(op1, op2, Apply(op2, Apply(op1, 1, 2), 3))
        /\ \A u \in {"-", "!"}, op \in BinaryOperators :
               Evaluated(<<u, "1", op, "2">>) => Tree = Bin(ExprUnary(TokenOf(u), Lit("1")), op, Lit("2"))

\* 1 + 2 * 3;  returned 7 from Binary(1, +, Binary(2, *, 3))
C22_Witness ==
    /\ Evaluated(<<"1", "+", "2", "*", "3">>)
    /\ Tree = Bin(Lit("1"), "+", Bin(Lit("2"), "*", Lit("3")))
    /\ Returned(ValNumber(7, 0))

(***************************************************************************)
(* environment.rs: a block's Environment beside scopes chained by          *)
(* reference.  The child is made by Environment::new(Some(parent.clone())) *)
(* and receives define / assign / get calls; parent.update(child) ends it. *)
(***************************************************************************)
\* the most calls made on the child before update
MaxOps == 3

\* what the child assigns, and what its declarations start with
ScopeValues == {ValNumber(7, 0), ValNumber(8, 0)}

Initializers == {None, Some(ValNumber(9, 0))}

Name(n) == Token("Identifier", n, LitNil, 1)

\* the maps of the frames of an environment, innermost first
Maps(env) == [i \in 1..Len(Frames(env)) |-> Frames(env)[i].values]

\* scopes chained by reference: a sequence of maps, a write going to the map
\* of the nearest scope that declares the name
RefNearest(ref, n) ==
    LET declaring == {i \in 1..Len(ref) : n \in DOMAIN ref[i]}
    IN  IF declaring = {} THEN 0 ELSE CHOOSE i \in declaring : \A j \in declaring : i <= j

RefDefine(ref, n, v) == [ref EXCEPT ![1] = insert(@, n, v)]

RefAssign(ref, n, v) ==
    IF RefNearest(ref, n) = 0 THEN ref
    ELSE [ref EXCEPT ![RefNearest(ref, n)] = insert(@, n, Some(v))]

RefGet(ref, n) ==
    IF RefNearest(ref, n) = 0 THEN <<"Err", undefined_variable_error(Name(n))>>
    ELSE <<"Ok", ref[RefNearest(ref, n)][n]>>

\* the environments a block is entered from; a declaration without initializer
\* is taken for a only
ScopeParents ==
    {e \in EvalEnvs : \A i \in 1..Len(Frames(e)) : "b" \in Names(Frames(e)[i]) => Frames(e)[i].values["b"] # None}

ScopeInit ==
    /\ parent \in ScopeParents
    /\ child = EnvironmentNew(Some(parent))
    /\ reference = <<EmptyMap>> \o Maps(parent)
    /\ scope_pc = "child"
    /\ scope_ops = 0
    /\ scope_ret = None
    /\ ScanIdle
    /\ ParseIdle
    /\ RunIdle
    /\ EvalIdle

\* child.define(name, value)
scope_define ==
    /\ scope_pc = "child"
    /\ scope_ops < MaxOps
    /\ \E n \in EnvNames, v \in Initializers :
           /\ child' = define(child, n, v)
           /\ reference' = RefDefine(reference, n, v)
    /\ scope_ops' = scope_ops + 1
    /\ scope_ret' = None
    /\ UNCHANGED <<parent, scope_pc, eval_ret, scan_vars, parse_vars, run_vars>>

\* child.assign(name, value)
scope_assign ==
    /\ scope_pc = "child"
    /\ scope_ops < MaxOps
    /\ \E n \in EnvNames, v \in ScopeValues :
       \E r \in {assign(child, Name(n), v)} :
           /\ child' = r.env
           /\ reference' = RefAssign(reference, n, v)
           /\ scope_ret' = Some(IF r.ok THEN <<"Ok">> ELSE <<"Err", r.err[1]>>)
    /\ scope_ops' = scope_ops + 1
    /\ UNCHANGED <<parent, scope_pc, eval_ret, scan_vars, parse_vars, run_vars>>

\* child.get(name)
scope_get ==
    /\ scope_pc = "child"
    /\ scope_ops < MaxOps
    /\ \E n \in EnvNames : scope_ret' = Some(get(child, Name(n)))
    /\ scope_ops' = scope_ops + 1
    /\ UNCHANGED <<parent, child, reference, scope_pc, eval_ret, scan_vars, parse_vars, run_vars>>

\* parent.update(&mut child)
scope_update ==
    /\ scope_pc = "child"
    /\ \E keys \in IterationOrders(child.parent_modified) :
       \E r \in {update(parent, child, keys)} :
           /\ parent' = r.env
           /\ scope_pc' = IF r.panicked THEN "panicked" ELSE "merged"
    /\ scope_ret' = None
    /\ UNCHANGED <<child, reference, scope_ops, eval_ret, scan_vars, parse_vars, run_vars>>

ScopeNext == scope_define \/ scope_assign \/ scope_get \/ scope_update

SpecScope == ScopeInit /\ [][ScopeNext]_vars

(***************************************************************************)
(* Properties of SpecScope.                                                *)
(***************************************************************************)
\* the child reads every name as the reference-chained scopes do
ReadsAgree == \A n \in EnvNames : get(child, Name(n)) = RefGet(reference, n)

\* C25: a child made with a clone of the parent, after any define / assign /
\* get calls followed by parent.update(child), leaves the parent chain with
\* the bindings scopes chained by reference would hold: every write to an
\* outer name is in the nearest declaring frame, the names the child declared
\* stay in the child, and the panic of assign_string is never reached.
C25_CloneAndMerge ==
    /\ scope_pc # "panicked"
    /\ scope_pc \in {"child", "merged"} => (Maps(child) = reference /\ ReadsAgree)
    /\ scope_pc = "merged" => Maps(parent) = Tail(reference)

C25_Witness ==
    /\ scope_pc = "merged"
    /\ scope_ops = 3
    /\ Len(Frames(parent)) = 2
    /\ "a" \notin Names(parent)
    /\ "a" \in Names(Frames(parent)[2])
    /\ Frames(parent)[2].values["a"] = Some(ValNumber(7, 0))
    /\ parent.parent_modified = insert(EmptyMap, "a", ValNumber(7, 0))
    /\ "a" \in Names(child)
    /\ child.values["a"] = Some(ValNumber(8, 0))
    /\ child.parent_modified = insert(EmptyMap, "a", ValNumber(7, 0))

====
